---- MODULE Spec2Model ----
(***************************************************************************)
(* TractView: the three tractography decoders (TRK, TCK, TRX) and the      *)
(* objects a decode call shares with its caller.                           *)
(*                                                                         *)
(* Numbers.  A JavaScript number is an integer here; the three IEEE values *)
(* the decoders test for are integers outside every range a file field or  *)
(* a byte offset can take (PosInf, NegInf, NaN).  A Float32Array / number[]*)
(* is kept run-length encoded: a sequence of runs [v |-> value, n |-> how  *)
(* many consecutive elements hold it], so that a 100000-point streamline   *)
(* is one run and its length is still the exact element count.             *)
(***************************************************************************)
EXTENDS Integers, Sequences, FiniteSets, TLC

\* ------------------------------------------------------------------ bounds
\* Longest TCK body, in chunks (a chunk is one triplet, or one block of
\* identical valid triplets).
MaxTckChunks == 3
\* Most records in a TRK body.
MaxTrkRecords == 3
\* Most entries of the offsets member of a TRX archive.
MaxTrxOffsets == 2
\* The longest streamline list handed to applySkipSampling.
MaxTotal == 10
\* The most streamlines handed to calculateBoundingBox.
MaxBoxStreamlines == 2
ManyStreamlines == 120
MaxInFlight == 1
MaxLoads == 2

\* ------------------------------------------------------- program constants
MAX_FILE_SIZE == 524288000
\* currentPoints.length > 300000 is fatal in the TCK body loop.
TCK_MAX_FLOATS == 300000
\* The same limit in points.
TCK_MAX_POINTS == TCK_MAX_FLOATS \div 3
\* numPoints > 100000 ends the TRK body loop.
TRK_MAX_POINTS == 100000
\* The fixed TRK header length, also the value hdrSize must have.
TRK_HEADER_SIZE == 1000
\* Scalar and property counts of a TRK header are valid up to 10.
TRK_MAX_CHANNELS == 10
\* A TRK dimension is valid up to 65535.
TRK_MAX_DIM == 65535
\* The TCK END marker is searched in the first 10000 bytes.
TCK_HEADER_WINDOW == 10000

\* ------------------------------------------------------------ IEEE values
PosInf == 10^9
NegInf == 0 - PosInf
NaN == PosInf + 1
\* A finite float64 too large for float32: Float32Array stores +Infinity.
BigF64 == 10^8
\* A number that is not an integer (7/3); only the kind is kept.
NonInteger == PosInf + 2
\* A JSON value that is not a number (a string, null, an object).
NonNumber == PosInf + 3

isNaN(x) == x = NaN
isFinite(x) == x \notin {NaN, PosInf, NegInf}
\* What a Float32Array element holds after number x is stored into it.
ToFloat32(x) == IF x = BigF64 THEN PosInf ELSE x

Min(a, b) == IF a <= b THEN a ELSE b
Max(a, b) == IF a >= b THEN a ELSE b

\* ------------------------------------------------------ run-length arrays
RECURSIVE ArrLen(_)
\* array.length
ArrLen(a) == IF a = <<>> THEN 0 ELSE Head(a).n + ArrLen(Tail(a))

\* new Float32Array(numbers): element-wise float32 conversion
Float32ArrayOf(a) == [i \in 1..Len(a) |-> [v |-> ToFloat32(a[i].v), n |-> a[i].n]]

\* The result of a call that threw: the message, and the furthest part of the
\* buffer the call had read by then ("none", "header" or "body").
Failure(msg, part) == [ok |-> FALSE, error |-> msg, parsed |-> part]

\* The size check that opens each decoder: buffer.byteLength > MAX_FILE_SIZE.
\* A size check that lets one byte more through.
SizeLimitOffByOne(b) == b.byteLength > MAX_FILE_SIZE + 1

TooLarge(b) == b.byteLength > MAX_FILE_SIZE

\* A header field that holds a reference to an object owned by somebody else
\* (a module-level array, the caller's buffer) or a freshly allocated value.
Shared(name) == [ref |-> name, val |-> <<>>]
Owned(value) == [ref |-> "own", val |-> value]

\* ===================================================================== TCK
\* A TCK buffer: [fmt, byteLength, lines, terminated, body].
\*   lines      the non-blank header lines before the END line, each
\*              classified by what the parser tests on it:
\*              [cls, key, value, num, bytes, phrase, end]; cls is "magic"
\*              (the trimmed, lowercased line is 'mrtrix tracks'), "kv"
\*              (key: value) or "text" (no colon); num is parseInt(value);
\*              bytes counts its newline; phrase says the raw line contains
\*              "mrtrix tracks" in any case; end says its text ends with the
\*              letters END
\*   terminated the newline that follows the END line: "LF", "CRLF", or
\*              "none" when there is no END line
\*   body       the chunks after the END line: [x, y, z, rep], rep copies of
\*              the triplet (x, y, z)
\* byteLength may leave a tail of less than one triplet after the body.

DATA_TYPES ==
  [Float32LE |-> [bytesPerFloat |-> 4, littleEndian |-> TRUE],
   Float32BE |-> [bytesPerFloat |-> 4, littleEndian |-> FALSE],
   Float64LE |-> [bytesPerFloat |-> 8, littleEndian |-> TRUE],
   Float64BE |-> [bytesPerFloat |-> 8, littleEndian |-> FALSE]]

\* The names DATA_TYPES, an object literal, inherits from Object.prototype:
\* DATA_TYPES[name] is a function or an object for each of them.
ObjectPrototypeKeys ==
  {"constructor", "toString", "valueOf", "hasOwnProperty", "__proto__"}

\* The datatype test of parseHeader: DATA_TYPES[datatype] is truthy.
IsDataType(d) == d \in DOMAIN DATA_TYPES \/ d \in ObjectPrototypeKeys

\* bytesPerFloat * 3, bytesPerFloat being undefined for an inherited name.
TckBytesPerTriplet(d) ==
  IF d \in DOMAIN DATA_TYPES THEN DATA_TYPES[d].bytesPerFloat * 3 ELSE NaN

RECURSIVE TckHeaderBytes(_)
\* Bytes of the header lines, each with its newline.
TckHeaderBytes(lines) ==
  IF lines = <<>> THEN 0 ELSE Head(lines).bytes + TckHeaderBytes(Tail(lines))

\* The bytes of the END line with its newline.
TckEndLineBytes(b) ==
  CASE b.terminated = "LF" -> 4 [] b.terminated = "CRLF" -> 5 [] OTHER -> 0

\* Where the binary data starts in the file: right after the END line.
TckDataStart(b) == TckHeaderBytes(b.lines) + TckEndLineBytes(b)

\* Whether the search loop tests index i and finds the newline after it:
\* i < maxHeaderSize - 2 and i + 3 < bytes.length.
TckEndSeen(i, byteLength) ==
  i < Min(byteLength, TCK_HEADER_WINDOW) - 2 /\ i + 3 < byteLength

RECURSIVE TckFindEnd(_, _, _)
\* The search for the bytes E, N, D followed by LF or CR, from the line after
\* the n-th, which starts at offset `at`: headerEnd, and how many of the
\* lines lie in the header text.
TckFindEnd(b, n, at) ==
  IF n < Len(b.lines)
    THEN LET l == b.lines[n + 1] IN
         IF l.end /\ TckEndSeen(at + l.bytes - 4, b.byteLength)
           THEN [headerEnd |-> at + l.bytes, used |-> n + 1]
           ELSE TckFindEnd(b, n + 1, at + l.bytes)
  ELSE IF b.terminated # "none" /\ TckEndSeen(at, b.byteLength)
    THEN [headerEnd |-> at + TckEndLineBytes(b), used |-> n]
    ELSE [headerEnd |-> 0 - 1, used |-> n]

\* headerEnd: right after the newline that follows the first END, or -1.
TckHeaderEnd(b) == TckFindEnd(b, 0, 0).headerEnd

\* The lines of the header text, bytes.slice(0, headerEnd).
TckHeaderText(b) == SubSeq(b.lines, 1, TckFindEnd(b, 0, 0).used)

\* metadata[key] = ...: a new key goes last, an old key keeps its place.
TckSetKey(keys, key) ==
  IF key \in {keys[i] : i \in 1..Len(keys)} THEN keys ELSE Append(keys, key)

RECURSIVE TckHeaderFold(_, _)
\* The loop over the header lines: the metadata keys in insertion order,
\* whether metadata['mrtrix tracks'] is truthy, datatype, fileOffset and count.
TckHeaderFold(lines, h) ==
  IF lines = <<>> THEN h
  ELSE LET l == Head(lines) IN
    TckHeaderFold(Tail(lines),
      CASE l.cls = "magic" -> [h EXCEPT !.keys = TckSetKey(h.keys, "mrtrix tracks"),
                                        !.magic = TRUE]
        [] l.cls = "text" -> h
        [] l.cls = "kv" ->
             LET h1 == [h EXCEPT !.keys = TckSetKey(h.keys, l.key)]
             IN CASE l.key = "mrtrix tracks" -> [h1 EXCEPT !.magic = (l.value # "")]
                  [] l.key = "datatype" -> [h1 EXCEPT !.datatype = l.value]
                  [] l.key = "file" -> [h1 EXCEPT !.fileOffset = l.num]
                  [] l.key = "count" -> [h1 EXCEPT !.count = l.num]
                  [] OTHER -> h1)

\* parseHeader of the TCK parser.
TckParseHeader(b) ==
  LET headerEnd == TckHeaderEnd(b) IN
  IF headerEnd = 0 - 1 THEN Failure("could not find END marker", "header")
  ELSE LET h == TckHeaderFold(TckHeaderText(b),
                  [keys |-> <<>>, magic |-> FALSE, datatype |-> "Float32LE",
                   fileOffset |-> headerEnd, count |-> 0])
       IN IF ~IsDataType(h.datatype) THEN Failure("Unsupported TCK datatype", "header")
          ELSE [ok |-> TRUE, hdr |-> h]

\* currentPoints.push(x, y, z), rep times.
PushTriplets(cur, c) ==
  IF c.x = c.y /\ c.y = c.z
    THEN Append(cur, [v |-> c.x, n |-> 3 * c.rep])
    ELSE cur \o <<[v |-> c.x, n |-> 1], [v |-> c.y, n |-> 1], [v |-> c.z, n |-> 1]>>

\* An emit that wants 3 points or more.
EmitThreePoints(out, cur) ==
  IF ArrLen(cur) >= 9
    THEN Append(out, [points |-> Float32ArrayOf(cur), numPoints |-> ArrLen(cur) \div 3,
                      scalars |-> <<>>, properties |-> <<>>])
    ELSE out

\* streamlines.push({points: new Float32Array(currentPoints), numPoints: length / 3})
\* when currentPoints holds at least 2 points.
TckEmit(out, cur) ==
  IF ArrLen(cur) >= 6
    THEN Append(out, [points |-> Float32ArrayOf(cur), numPoints |-> ArrLen(cur) \div 3,
                      scalars |-> <<>>, properties |-> <<>>])
    ELSE out

\* The safety check after a push: currentPoints.length > 300000.
\* A runaway check that refuses a streamline of exactly the maximum length.
RunawayAtLimit(length) == length >= TCK_MAX_FLOATS

TckRunaway(length) == length > TCK_MAX_FLOATS

\* One chunk of the body loop: `k` consecutive iterations reading the same triplet.
TckStep(st, c, k) ==
  IF ~isFinite(c.x) /\ ~isNaN(c.x)
    THEN [st EXCEPT !.out = TckEmit(st.out, st.cur), !.mode = "break"]
  ELSE IF isNaN(c.x) \/ isNaN(c.y) \/ isNaN(c.z)
    THEN [st EXCEPT !.out = TckEmit(st.out, st.cur), !.cur = <<>>]
  ELSE IF TckRunaway(ArrLen(st.cur) + 3 * k)
    THEN [st EXCEPT !.mode = "throw"]
    ELSE [st EXCEPT !.cur = PushTriplets(st.cur, [c EXCEPT !.rep = k])]

\* The loop test: offset + bytesPerTriplet <= bufferLength (false for NaN).
TckHasTriplet(offset, bpt, bufferLength) == bpt # NaN /\ offset + bpt <= bufferLength

RECURSIVE TckLoop(_, _, _, _, _)
\* while (offset + bytesPerTriplet <= bufferLength) { ... }
TckLoop(body, offset, bufferLength, bpt, st) ==
  IF st.mode # "run" \/ body = <<>> \/ ~TckHasTriplet(offset, bpt, bufferLength) THEN st
  ELSE LET c == Head(body)
           k == Min(c.rep, (bufferLength - offset) \div bpt)
       IN TckLoop(Tail(body), offset + bpt * k, bufferLength, bpt, TckStep(st, c, k))

\* What reader() makes of bytes of header text: ASCII bytes are below 0x7F,
\* so the exponent bits are never all ones and the value is finite.
TextFloat == 77

\* The triplets from fileOffset on: when the header text ended before the END
\* line, the rest of the text is read as floats, then the body (the files
\* modelled keep the body on a whole number of triplets from fileOffset).
TckDataFrom(b, fileOffset, bpt) ==
  IF bpt # NaN /\ fileOffset < TckDataStart(b)
    THEN <<[x |-> TextFloat, y |-> TextFloat, z |-> TextFloat,
            rep |-> (TckDataStart(b) - fileOffset) \div bpt]>> \o b.body
    ELSE b.body

\* parseStreamlines of the TCK parser: the streamlines, or "throw".
TckParseStreamlines(b, hdr) ==
  LET bpt == TckBytesPerTriplet(hdr.datatype)
      st == TckLoop(TckDataFrom(b, hdr.fileOffset, bpt), hdr.fileOffset, b.byteLength, bpt,
                    [mode |-> "run", cur |-> <<>>, out |-> <<>>])
  IN IF st.mode = "throw" THEN st ELSE [st EXCEPT !.out = TckEmit(st.out, st.cur)]

\* The metadata keys that contain "mrtrix tracks" once lowercased.
TckKeyHasPhrase(key) == key \in {"mrtrix tracks", "mrtrix tracks v2"}

\* The magic check of parseTckFile: metadata['mrtrix tracks'] is truthy, or
\* the first metadata key contains the phrase.
TckHasMagic(hdr) ==
  \/ hdr.magic
  \/ hdr.keys # <<>> /\ TckKeyHasPhrase(hdr.keys[1])

parseTckFile(b) ==
  IF TooLarge(b) THEN Failure("too large", "none")
  ELSE LET ph == TckParseHeader(b) IN
    IF ~ph.ok THEN ph
    ELSE IF ~TckHasMagic(ph.hdr) THEN Failure("missing mrtrix tracks identifier", "header")
    ELSE LET st == TckParseStreamlines(b, ph.hdr) IN
      IF st.mode = "throw" THEN Failure("streamline exceeds maximum point count", "body")
      ELSE [ok |-> TRUE, parsed |-> "body",
            header |-> [format |-> "tck",
                        dim |-> Shared("DEFAULT_DIMENSIONS"),
                        voxelSize |-> Shared("DEFAULT_VOXEL_SIZE"),
                        nCount |-> Len(st.out),
                        version |-> 1,
                        metadata |-> [datatype |-> ph.hdr.datatype,
                                      originalCount |-> ph.hdr.count]],
            streamlines |-> st.out]

\* ===================================================================== TRK
\* A TRK buffer: [fmt, byteLength, hdr, records].
\*   hdr      the fields of the 1000-byte header as the DataView reads them
\*   records  the body: [numPoints, val], the 32-bit point count and the
\*            value every float of the record holds
\* Bytes past the last record, if any, are zero.

\* parseHeader of the TRK parser: a buffer shorter than the header makes a
\* DataView / Uint8Array read throw a RangeError.
TrkParseHeader(b) ==
  IF b.byteLength < TRK_HEADER_SIZE THEN Failure("RangeError", "header")
  ELSE [ok |-> TRUE,
        hdr |-> [format |-> "trk",
                 idString |-> b.hdr.idString,
                 dim |-> Owned(b.hdr.dim),
                 voxelSize |-> Owned(b.hdr.voxelSize),
                 nScalars |-> b.hdr.nScalars,
                 nProperties |-> b.hdr.nProperties,
                 reserved |-> Shared("buffer"),
                 nCount |-> b.hdr.nCount,
                 version |-> b.hdr.version,
                 hdrSize |-> b.hdr.hdrSize]]

\* The first index (1..3) of a triple that fails `bad`, or 0.
FirstBad(t, bad(_)) ==
  IF bad(t[1]) THEN 1 ELSE IF bad(t[2]) THEN 2 ELSE IF bad(t[3]) THEN 3 ELSE 0

TrkBadDim(d) == d < 0 \/ d > TRK_MAX_DIM
\* A voxel-size check without the finiteness test.
NegativeVoxelOnly(v) == v < 0

TrkBadVoxel(v) == ~isFinite(v) \/ v < 0

\* validateTrkHeader: the message of the error it throws, or "" when it returns.
validateTrkHeader(header) ==
  IF header.nScalars < 0 \/ header.nScalars > TRK_MAX_CHANNELS THEN "nScalars"
  ELSE IF header.nProperties < 0 \/ header.nProperties > TRK_MAX_CHANNELS THEN "nProperties"
  ELSE IF FirstBad(header.dim.val, TrkBadDim) # 0 THEN "dimension"
  ELSE IF FirstBad(header.voxelSize.val, TrkBadVoxel) # 0 THEN "voxelSize"
  ELSE IF header.hdrSize # TRK_HEADER_SIZE THEN "hdrSize"
  ELSE ""

\* A record check that lets a count of zero through.
CountZeroAllowed(numPoints) == numPoints < 0 \/ numPoints > TRK_MAX_POINTS

\* The record check of the body loop: numPoints <= 0 || numPoints > 100000.
TrkInvalidCount(numPoints) == numPoints <= 0 \/ numPoints > TRK_MAX_POINTS

\* One decoded record.
TrkStreamline(rec, header) ==
  [points |-> <<[v |-> rec.val, n |-> rec.numPoints * 3]>>,
   numPoints |-> rec.numPoints,
   scalars |-> [s \in 1..header.nScalars |-> <<[v |-> rec.val, n |-> rec.numPoints]>>],
   properties |-> IF header.nProperties > 0
                    THEN <<[v |-> rec.val, n |-> header.nProperties]>> ELSE <<>>]

\* A limit that ignores the declared count.
CountUnlimited(nCount) == PosInf

\* maxStreamlines = header.nCount > 0 ? header.nCount : Infinity
TrkMaxStreamlines(nCount) == IF nCount > 0 THEN nCount ELSE PosInf

\* if (offset + 4 > bufferLength) break;
TrkCountOutside(offset, bufferLength) == offset + 4 > bufferLength

\* A record check that lets a record run 4 bytes past the end.
RecordOutsideLoose(offset, streamlineBytes, bufferLength) ==
  offset + streamlineBytes > bufferLength + 4

\* if (offset + streamlineBytes > bufferLength) break;  (offset is past the count)
TrkRecordOutside(offset, streamlineBytes, bufferLength) ==
  offset + streamlineBytes > bufferLength

RECURSIVE TrkLoop(_, _, _, _, _)
\* while (offset < bufferLength && streamlines.length < maxStreamlines) { ... }
\* st.out is `streamlines`; st.reach is the end of the furthest DataView read
\* made so far.  A count read past the last record reads zero bytes.
TrkLoop(records, offset, bufferLength, header, st) ==
  IF ~(offset < bufferLength /\ Len(st.out) < TrkMaxStreamlines(header.nCount)) THEN st
  ELSE IF TrkCountOutside(offset, bufferLength) THEN st
  ELSE LET numPoints == IF records = <<>> THEN 0 ELSE Head(records).numPoints
           streamlineBytes == numPoints * 4 * (3 + header.nScalars) + 4 * header.nProperties
           counted == [st EXCEPT !.reach = Max(st.reach, offset + 4)]
       IN IF TrkInvalidCount(numPoints) THEN counted
          ELSE IF TrkRecordOutside(offset + 4, streamlineBytes, bufferLength) THEN counted
          ELSE TrkLoop(Tail(records), offset + 4 + streamlineBytes, bufferLength, header,
                       [out |-> Append(st.out, TrkStreamline(Head(records), header)),
                        reach |-> Max(st.reach, offset + 4 + streamlineBytes)])

\* The body loop run on a validated header; the body starts at hdrSize || 1000
\* and parseHeader has read the first 1000 bytes.
TrkBody(b, header) ==
  TrkLoop(b.records, IF header.hdrSize = 0 THEN TRK_HEADER_SIZE ELSE header.hdrSize,
          b.byteLength, header, [out |-> <<>>, reach |-> TRK_HEADER_SIZE])

\* parseStreamlines of the TRK parser.
TrkParseStreamlines(b, header) == TrkBody(b, header).out

\* The end of the furthest read parseTrkFile makes in a buffer it decodes.
TrkReadEnd(b) == TrkBody(b, TrkParseHeader(b).hdr).reach

\* idString.startsWith('TRACK'), idString being the first 6 bytes without NULs.
TrkStartsWithTRACK(idString) == idString \in {"TRACK", "TRACKS"}

parseTrkFile(b) ==
  IF TooLarge(b) THEN Failure("too large", "none")
  ELSE LET ph == TrkParseHeader(b) IN
    IF ~ph.ok THEN ph
    ELSE IF ~TrkStartsWithTRACK(ph.hdr.idString)
      THEN Failure("missing TRACK identifier", "header")
    ELSE IF validateTrkHeader(ph.hdr) # "" THEN Failure(validateTrkHeader(ph.hdr), "header")
    ELSE [ok |-> TRUE, parsed |-> "body",
          header |-> ph.hdr,
          streamlines |-> TrkParseStreamlines(b, ph.hdr)]


\* ===================================================================== TRX
\* A TRX buffer: [fmt, byteLength, entries].  An entry is one local file
\* header with its data region: [sig, method, name, head, csize, size, data]
\*   sig     whether the 4 bytes at its offset are 0x04034b50
\*   method  the compression method
\*   head    30 + name length + extra length
\*   csize   the compressed size the local header declares
\*   size    head + csize
\*   data    the member's content once stored/inflated: the JSON value of
\*           header.json, the numbers of a positions or offsets member
\* byteLength may stop short of the last entry's end, inside its data region
\* or inside the 30 fixed bytes of its local header.

\* The last dot-separated token of the basename, lowercased.
Dtype(name) ==
  CASE name \in {"positions.3.float32", "trx/positions.3.float32"} -> "float32"
    [] name = "positions.3.float64" -> "float64"
    [] name = "positions.3.float16" -> "float16"
    [] name = "positions.3.int8" -> "int8"
    [] name \in {"offsets.uint32", "trx/offsets.uint32"} -> "uint32"
    [] name = "offsets.int32" -> "int32"
    [] name = "offsets.uint64" -> "uint64"
    [] name = "offsets.int64" -> "int64"
    [] name = "offsets.uint16" -> "uint16"
    [] OTHER -> "json"

\* The bytes one number of a member takes, 0 for a member that is not an array.
ElemBytes(name) ==
  CASE Dtype(name) \in {"float32", "uint32", "int32"} -> 4
    [] Dtype(name) \in {"float64", "uint64", "int64"} -> 8
    [] Dtype(name) \in {"float16", "uint16"} -> 2
    [] Dtype(name) = "int8" -> 1
    [] OTHER -> 0

\* A walk that collects the entries of every method.
ZipCollectsAny(method) == method >= 0

\* A walk that collects stored entries only.
ZipStoreOnly(method) == method = 0

\* The methods whose entries are collected: 0 (STORE) and 8 (DEFLATE).
ZipCollects(method) == method \in {0, 8}

\* bytes.slice(dataOffset, dataOffset + compressedSize) of a stored entry of
\* which `avail` bytes lie in the buffer: [content, rem, whole], the numbers
\* that are complete, the bytes of a last incomplete number, and whether the
\* whole member is there.
ZipStored(e, avail) ==
  IF avail >= e.csize THEN [content |-> e.data, rem |-> 0, whole |-> TRUE]
  ELSE IF ElemBytes(e.name) = 0 THEN [content |-> e.data, rem |-> 0, whole |-> FALSE]
  ELSE [content |-> SubSeq(e.data, 1, avail \div ElemBytes(e.name)),
        rem |-> avail % ElemBytes(e.name), whole |-> FALSE]

RECURSIVE parseZipEntries(_, _, _)
\* The walk over the local file headers from `offset`: the entries collected
\* and the error thrown, if any ("" for none).  A read of the fixed header
\* fields past the end of the buffer throws a RangeError; zlib.inflateRawSync
\* throws on a stream that is cut short.
parseZipEntries(entries, offset, byteLength) ==
  IF entries = <<>> \/ ~(offset < byteLength - 4) THEN [thrown |-> "", entries |-> <<>>]
  ELSE LET e == Head(entries)
           avail == Max(Min(e.csize, byteLength - (offset + e.head)), 0)
           rest == parseZipEntries(Tail(entries), offset + e.size, byteLength)
       IN IF ~e.sig THEN [thrown |-> "", entries |-> <<>>]
          ELSE IF offset + 30 > byteLength THEN [thrown |-> "RangeError", entries |-> <<>>]
          ELSE IF ~ZipCollects(e.method) THEN rest
          ELSE IF e.method = 8 /\ avail < e.csize
            THEN [thrown |-> "unexpected end of file", entries |-> <<>>]
          ELSE [rest EXCEPT !.entries = <<[name |-> e.name, data |-> ZipStored(e, avail)]>> \o @]

\* entries.find(pred): the first match as a one-element sequence, or <<>>.
Find(entries, pred(_)) ==
  LET hits == {i \in 1..Len(entries) : pred(entries[i].name)} IN
  IF hits = {} THEN <<>>
  ELSE <<entries[CHOOSE i \in hits : \A j \in hits : i <= j]>>

IsHeaderName(name) == name \in {"header.json", "trx/header.json"}
IsPositionsName(name) ==
  name \in {"positions.3.float32", "positions.3.float64", "positions.3.float16",
            "positions.3.int8", "trx/positions.3.float32"}
IsOffsetsName(name) ==
  name \in {"offsets.uint32", "offsets.int32", "offsets.uint64", "offsets.int64",
            "offsets.uint16", "trx/offsets.uint32"}

\* typeof v === 'number'
IsNumber(x) == x # NonNumber

\* A test for an integer that takes every number.
AnyNumberIsInteger(x) == x # NonNumber

\* typeof v === 'number' && Number.isInteger(v)
IsInteger(x) == x \notin {NaN, PosInf, NegInf, NonInteger, NonNumber}

\* validateTrxHeader: the message of the error it throws, or "" when it returns.
\* obj: [isObject, VOXEL_TO_RASMM (rows), DIMENSIONS, NB_STREAMLINES, NB_VERTICES].
validateTrxHeader(obj) ==
  IF ~obj.isObject THEN "not an object"
  ELSE IF Len(obj.VOXEL_TO_RASMM) # 4 THEN "VOXEL_TO_RASMM must be a 4x4 matrix"
  ELSE IF \E r \in 1..4 :
            \/ Len(obj.VOXEL_TO_RASMM[r]) # 4
            \/ \E c \in 1..4 : ~IsNumber(obj.VOXEL_TO_RASMM[r][c])
    THEN "VOXEL_TO_RASMM rows must be arrays of 4 numbers"
  ELSE IF Len(obj.DIMENSIONS) # 3
          \/ \E i \in 1..Len(obj.DIMENSIONS) :
               ~IsInteger(obj.DIMENSIONS[i]) \/ obj.DIMENSIONS[i] < 0
    THEN "DIMENSIONS must be 3 non-negative integers"
  ELSE IF ~IsInteger(obj.NB_STREAMLINES) \/ obj.NB_STREAMLINES < 0
    THEN "NB_STREAMLINES must be a non-negative integer"
  ELSE IF ~IsInteger(obj.NB_VERTICES) \/ obj.NB_VERTICES < 0
    THEN "NB_VERTICES must be a non-negative integer"
  ELSE ""

\* parsePositions: the Float32Array of the member; it throws for an
\* unsupported element type, and a DataView read past the data throws a
\* RangeError when the data stops inside a number.
parsePositions(name, data) ==
  IF Dtype(name) \notin {"float16", "float32", "float64"}
    THEN [ok |-> FALSE, error |-> "Unsupported positions data type"]
  ELSE IF data.rem # 0 THEN [ok |-> FALSE, error |-> "RangeError"]
  ELSE [ok |-> TRUE, arr |-> [i \in 1..Len(data.content) |-> ToFloat32(data.content[i])]]

\* parseOffsets: the typed array of the member (the content holds the numbers
\* as the member's element type reads them); it throws like parsePositions.
parseOffsets(name, data) ==
  IF Dtype(name) \notin {"uint64", "int64", "uint32", "int32"}
    THEN [ok |-> FALSE, error |-> "Unsupported offsets data type"]
  ELSE IF data.rem # 0 THEN [ok |-> FALSE, error |-> "RangeError"]
  ELSE [ok |-> TRUE, arr |-> data.content]

\* ToIntegerOrInfinity of a slice bound, then clamped into 0..len.
SliceBound(x, len) ==
  LET rel == IF x = NaN THEN 0 ELSE x IN
  IF rel < 0 THEN Max(len + rel, 0) ELSE Min(rel, len)

\* typedArray.slice(start, end)
JsSlice(arr, start, end) ==
  LET k == SliceBound(start, Len(arr))
      final == SliceBound(end, Len(arr))
  IN [i \in 1..Max(final - k, 0) |-> arr[k + i]]

\* One iteration of the loop of buildStreamlines for index i (0-based).
\* Vertex indices are kept times 3 (totalVertices = positions.length / 3 need
\* not be an integer): start3, end3 and numPoints3 are 3 * the code's values.
TrxBuildOne(positions, offsets, i) ==
  LET start3 == IF i < Len(offsets) THEN 3 * offsets[i + 1] ELSE NaN
      end3 == IF i + 1 < Len(offsets) THEN 3 * offsets[i + 2] ELSE Len(positions)
      numPoints3 == IF start3 = NaN THEN NaN ELSE end3 - start3
      numPoints == IF numPoints3 = NaN THEN NaN
                   ELSE IF numPoints3 % 3 = 0 THEN numPoints3 \div 3 ELSE NonInteger
      points == JsSlice(positions, start3, end3)
  IN IF numPoints3 # NaN /\ numPoints3 < 6 THEN <<>>
     ELSE <<[points |-> [j \in 1..Len(points) |-> [v |-> points[j], n |-> 1]],
             numPoints |-> numPoints,
             scalars |-> <<>>, properties |-> <<>>]>>

RECURSIVE TrxBuildFrom(_, _, _, _)
TrxBuildFrom(positions, offsets, nbStreamlines, i) ==
  IF ~(i < nbStreamlines) THEN <<>>
  ELSE TrxBuildOne(positions, offsets, i)
         \o TrxBuildFrom(positions, offsets, nbStreamlines, i + 1)

buildStreamlines(positions, offsets, nbStreamlines) ==
  TrxBuildFrom(positions, offsets, nbStreamlines, 0)

\* Math.sqrt of a sum of squares.
Sqrt(n) == IF \E r \in 0..n : r * r = n THEN CHOOSE r \in 0..n : r * r = n ELSE NonInteger

\* extractVoxelSize: the norm of each of the first three columns over rows 0-2.
extractVoxelSize(m) ==
  [j \in 1..3 |-> Sqrt(m[1][j] * m[1][j] + m[2][j] * m[2][j] + m[3][j] * m[3][j])]

\* A unified header that always takes the default dimensions.
DimFromDefault(trxHeader) == Shared("DEFAULT_DIMENSIONS")

\* The dim of the unified header: trxHeader.DIMENSIONS || DEFAULT_DIMENSIONS,
\* DIMENSIONS being an array, hence truthy, once validated.
TrxUnifiedDim(trxHeader) == Owned(trxHeader.DIMENSIONS)

\* JSON.parse of the header.json member throws a SyntaxError when the text is
\* cut short (the text ends with its closing brace).
parseTrxFile(b) ==
  IF TooLarge(b) THEN Failure("too large", "none")
  ELSE LET zip == parseZipEntries(b.entries, 0, b.byteLength)
           entries == zip.entries
           headerEntry == Find(entries, IsHeaderName)
           positionsEntry == Find(entries, IsPositionsName)
           offsetsEntry == Find(entries, IsOffsetsName)
       IN IF zip.thrown # "" THEN Failure(zip.thrown, "header")
          ELSE IF headerEntry = <<>> THEN Failure("missing header.json", "header")
          ELSE IF ~headerEntry[1].data.whole THEN Failure("SyntaxError", "header")
          ELSE IF validateTrxHeader(headerEntry[1].data.content) # ""
            THEN Failure(validateTrxHeader(headerEntry[1].data.content), "header")
          ELSE IF positionsEntry = <<>> THEN Failure("missing positions file", "header")
          ELSE IF offsetsEntry = <<>> THEN Failure("missing offsets file", "header")
          ELSE LET trxHeader == headerEntry[1].data.content
                   positions == parsePositions(positionsEntry[1].name, positionsEntry[1].data)
                   offsets == parseOffsets(offsetsEntry[1].name, offsetsEntry[1].data)
               IN IF ~positions.ok THEN Failure(positions.error, "body")
                  ELSE IF ~offsets.ok THEN Failure(offsets.error, "body")
                  ELSE LET streamlines == buildStreamlines(positions.arr, offsets.arr,
                                                           trxHeader.NB_STREAMLINES)
                       IN [ok |-> TRUE, parsed |-> "body",
                           header |-> [format |-> "trx",
                                       dim |-> TrxUnifiedDim(trxHeader),
                                       voxelSize |-> Owned(extractVoxelSize(trxHeader.VOXEL_TO_RASMM)),
                                       nCount |-> Len(streamlines),
                                       version |-> 1,
                                       metadata |-> [nbVertices |-> trxHeader.NB_VERTICES,
                                                     voxelToRasmm |-> trxHeader.VOXEL_TO_RASMM]],
                           streamlines |-> streamlines]


\* ==================================================== post-decode utilities
\* applySkipSampling and calculateBoundingBox of trkParser.ts.

\* Math.ceil(a / b) for an integer a >= 0: a / 0 is Infinity, 0 / 0 is NaN.
MathCeilDiv(a, b) ==
  IF b = 0 THEN (IF a = 0 THEN NaN ELSE PosInf)
  ELSE IF b > 0 THEN (a + b - 1) \div b
  ELSE 0 - (a \div (0 - b))

\* A skip factor rounded down instead of up.
SkipFactorFloor(totalCount, targetCount) ==
  IF targetCount > 0 THEN Max(totalCount \div targetCount, 1) ELSE PosInf

\* const skipFactor = Math.ceil(totalCount / targetCount)
SkipFactor(totalCount, targetCount) == MathCeilDiv(totalCount, targetCount)

\* A threshold test that sends a list of exactly skipThreshold to the stride.
UnderThresholdStrict(totalCount, skipThreshold) == totalCount < skipThreshold

\* if (totalCount <= skipThreshold)
UnderThreshold(totalCount, skipThreshold) == totalCount <= skipThreshold

RECURSIVE SampleLoop(_, _, _, _, _)
\* for (let i = 0; i < totalCount && sampled.length < maxCount; i += skipFactor)
SampleLoop(streamlines, i, skipFactor, maxCount, sampled) ==
  IF i < Len(streamlines) /\ Len(sampled) < maxCount
    THEN SampleLoop(streamlines, i + skipFactor, skipFactor, maxCount,
                    Append(sampled, streamlines[i + 1]))
    ELSE sampled

applySkipSampling(streamlines, maxCount, skipThreshold) ==
  LET totalCount == Len(streamlines) IN
  IF UnderThreshold(totalCount, skipThreshold)
    THEN [sampled |-> JsSlice(streamlines, 0, Min(maxCount, totalCount)),
          skipFactor |-> 1, totalCount |-> totalCount]
    ELSE LET targetCount == Min(maxCount, totalCount)
             skipFactor == SkipFactor(totalCount, targetCount)
         IN [sampled |-> SampleLoop(streamlines, 0, skipFactor, maxCount, <<>>),
             skipFactor |-> skipFactor, totalCount |-> totalCount]

RECURSIVE Flat(_)
\* The elements of a run-length encoded array, one by one.
Flat(a) ==
  IF a = <<>> THEN <<>>
  ELSE [i \in 1..Head(a).n |-> Head(a).v] \o Flat(Tail(a))

\* points[i] (i from 0): undefined past the end, which Math.min and Math.max
\* take as NaN.
ElementAt(flat, i) == IF i < Len(flat) THEN flat[i + 1] ELSE NaN

\* The (x, y, z) the loop of calculateBoundingBox reads from one streamline:
\* for (let i = 0; i < points.length; i += 3).
TriplesOf(streamline) ==
  LET flat == Flat(streamline.points)
  IN [k \in 1..((Len(flat) + 2) \div 3) |->
        <<ElementAt(flat, 3 * (k - 1)), ElementAt(flat, 3 * (k - 1) + 1),
          ElementAt(flat, 3 * (k - 1) + 2)>>]

RECURSIVE AllTriples(_)
\* for (const streamline of streamlines): the triples of all, in order (the
\* list is taken by halves, which keeps the recursion shallow).
AllTriples(streamlines) ==
  LET n == Len(streamlines)
  IN IF n = 0 THEN <<>>
     ELSE IF n = 1 THEN TriplesOf(streamlines[1])
     ELSE AllTriples(SubSeq(streamlines, 1, n \div 2))
            \o AllTriples(SubSeq(streamlines, n \div 2 + 1, n))

\* A running minimum that a greater value replaces.
MathMinSwapped(a, b) == IF a = NaN \/ b = NaN THEN NaN ELSE IF a < b THEN b ELSE a

\* Math.min / Math.max of two numbers: NaN when either is NaN.
MathMin(a, b) == IF a = NaN \/ b = NaN THEN NaN ELSE IF a < b THEN a ELSE b
MathMax(a, b) == IF a = NaN \/ b = NaN THEN NaN ELSE IF a > b THEN a ELSE b

\* a + b and a - b of two numbers that are integers, infinities or NaN.
JsAdd(a, b) ==
  IF a = NaN \/ b = NaN THEN NaN
  ELSE IF a \in {PosInf, NegInf} THEN (IF b \in {PosInf, NegInf} /\ b # a THEN NaN ELSE a)
  ELSE IF b \in {PosInf, NegInf} THEN b
  ELSE a + b
JsNeg(a) == IF a = NaN THEN NaN ELSE 0 - a
JsSub(a, b) == JsAdd(a, JsNeg(b))

\* Math.pow(a, 2)
Pow2(a) == IF a = NaN THEN NaN ELSE IF a \in {PosInf, NegInf} THEN PosInf ELSE a * a

\* n / 2 and Math.sqrt(n), kept exact: the number of halves, the radicand.
Half(n) == [halves |-> n]
SqrtOf(n) == [sqrtOf |-> n]

RECURSIVE BoxFold(_, _)
\* The running minimum and maximum per axis after the triples.  The list is
\* taken by halves, which keeps the recursion shallow: the minimum after all
\* is Math.min of the minimum after the first half and that of the second.
BoxFold(triples, box) ==
  LET n == Len(triples)
  IN IF n = 0 THEN box
     ELSE IF n = 1
       THEN [min |-> [a \in 1..3 |-> MathMin(box.min[a], triples[1][a])],
             max |-> [a \in 1..3 |-> MathMax(box.max[a], triples[1][a])]]
     ELSE LET first == BoxFold(SubSeq(triples, 1, n \div 2), box)
              second == BoxFold(SubSeq(triples, n \div 2 + 1, n),
                                [min |-> <<PosInf, PosInf, PosInf>>,
                                 max |-> <<NegInf, NegInf, NegInf>>])
          IN [min |-> [a \in 1..3 |-> MathMin(first.min[a], second.min[a])],
              max |-> [a \in 1..3 |-> MathMax(first.max[a], second.max[a])]]

calculateBoundingBox(streamlines) ==
  LET box == BoxFold(AllTriples(streamlines),
                     [min |-> <<PosInf, PosInf, PosInf>>, max |-> <<NegInf, NegInf, NegInf>>])
  IN [min |-> box.min,
      max |-> box.max,
      center |-> [a \in 1..3 |-> Half(JsAdd(box.min[a], box.max[a]))],
      size |-> SqrtOf(JsAdd(JsAdd(Pow2(JsSub(box.max[1], box.min[1])),
                                  Pow2(JsSub(box.max[2], box.min[2]))),
                            Pow2(JsSub(box.max[3], box.min[3]))))]


\* ============================================================ format probes
\* isTrkFile, isTckFile and isTrxFile.  To a probe a buffer is its leading
\* bytes: a sequence of segments [text, bytes], `text` being what the first
\* bytes of the segment spell ("" for bytes that spell nothing a probe looks
\* for) and `bytes` the length of the segment; the buffer ends after
\* byteLength bytes, which may be inside a segment.

Returned(value) == [raised |-> FALSE, value |-> value]
Raised(error) == [raised |-> TRUE, value |-> FALSE, error |-> error]

RECURSIVE SegStart(_, _)
\* The offset of the i-th segment.
SegStart(segs, i) == IF i = 1 THEN 0 ELSE SegStart(segs, i - 1) + segs[i - 1].bytes

\* String.prototype.toLowerCase of the texts the buffers spell.
ToLowerCase(text) ==
  CASE text \in {"MRTRIX TRACKS", "MRtrix Tracks"} -> "mrtrix tracks"
    [] text = "TRACK" -> "track"
    [] text = "TRACKS" -> "tracks"
    [] text = "NOTRK" -> "notrk"
    [] OTHER -> text

\* decoder.decode(bytes): the texts that lie whole in the first `length` bytes.
DecodedTexts(b, length) ==
  {b.segs[i].text : i \in {j \in 1..Len(b.segs) :
                             /\ b.segs[j].text # ""
                             /\ SegStart(b.segs, j) + b.segs[j].chars <= length}}

\* The text the buffer starts with, "" when it starts with none.
MagicOf(b) ==
  LET at == {i \in 1..Len(b.segs) : SegStart(b.segs, i) = 0 /\ b.segs[i].text # ""}
  IN IF at = {} THEN "" ELSE b.segs[CHOOSE i \in at : TRUE].text

\* isTrkFile: new Uint8Array(buffer, 0, 6) throws a RangeError on a buffer of
\* fewer than 6 bytes, which the catch turns into false.
isTrkFile(b) ==
  IF b.byteLength < 6 THEN Returned(FALSE)
  ELSE Returned(TrkStartsWithTRACK(MagicOf(b)))

\* isTckFile: the first min(100, byteLength) bytes, decoded and lowercased,
\* include 'mrtrix tracks'.
isTckFile(b) ==
  Returned(\E text \in DecodedTexts(b, Min(100, b.byteLength)) :
             ToLowerCase(text) = "mrtrix tracks")

\* A length test that lets every buffer through.
TrxNeverShort(byteLength) == byteLength < 0

\* if (buffer.byteLength < 4) return false
TrxTooShort(byteLength) == byteLength < 4

\* isTrxFile: view.getUint32(0, true) throws a RangeError on a buffer of fewer
\* than 4 bytes; nothing catches it.
isTrxFile(b) ==
  IF TrxTooShort(b.byteLength) THEN Returned(FALSE)
  ELSE IF b.byteLength < 4 THEN Raised("RangeError")
  ELSE Returned(MagicOf(b) = "PK\\3\\4")


\* ================================================================== inputs
\* The buffers a caller hands to the decoders.

Magic ==
  [cls |-> "magic", key |-> "", value |-> "", num |-> NaN, bytes |-> 14,
   phrase |-> TRUE, end |-> FALSE]
KvLine(key, value, num, bytes) ==
  [cls |-> "kv", key |-> key, value |-> value, num |-> num, bytes |-> bytes,
   phrase |-> TckKeyHasPhrase(key), end |-> FALSE]
DatatypeLine(d) == KvLine("datatype", d, NaN, 20)
CountLine(n) == KvLine("count", "n", n, 8)
TextLine(phrase, bytes) ==
  [cls |-> "text", key |-> "", value |-> "", num |-> NaN, bytes |-> bytes,
   phrase |-> phrase, end |-> FALSE]
\* 'comment: LEGEND': a value that ends with the letters END.
LegendLine == [KvLine("comment", "LEGEND", NaN, 16) EXCEPT !.end = TRUE]

TckHeader(lines, terminated) == [lines |-> lines, terminated |-> terminated]

\* Headers whose body is decoded.
TckGoodHeaders ==
  {TckHeader(<<Magic, DatatypeLine("Float32LE"), CountLine(1)>>, "LF"),
   TckHeader(<<Magic, DatatypeLine("Float64BE"), CountLine(5)>>, "LF")}

\* Headers the parser rejects, headers without a datatype, and headers whose
\* magic, datatype or END line is unusual.
TckOtherHeaders ==
  {TckHeader(<<Magic>>, "LF"),
   TckHeader(<<Magic>>, "CRLF"),
   TckHeader(<<Magic, DatatypeLine("Int16")>>, "LF"),
   TckHeader(<<Magic, DatatypeLine("float32le")>>, "LF"),
   TckHeader(<<Magic, DatatypeLine("")>>, "LF"),
   TckHeader(<<Magic, DatatypeLine("constructor")>>, "LF"),
   TckHeader(<<Magic, DatatypeLine("Int16"), DatatypeLine("Float32BE")>>, "LF"),
   TckHeader(<<DatatypeLine("Float32LE")>>, "LF"),
   TckHeader(<<DatatypeLine("Float32LE"), Magic>>, "LF"),
   TckHeader(<<TextLine(TRUE, 18), DatatypeLine("Float32LE")>>, "LF"),
   TckHeader(<<TextLine(FALSE, 6), KvLine("mrtrix tracks v2", "1", 1, 20)>>, "LF"),
   TckHeader(<<KvLine("mrtrix tracks", "", NaN, 15), CountLine(1)>>, "LF"),
   TckHeader(<<CountLine(1), KvLine("mrtrix tracks", "", NaN, 15)>>, "LF"),
   TckHeader(<<Magic, LegendLine, CountLine(1)>>, "LF"),
   TckHeader(<<Magic, LegendLine, DatatypeLine("Int16")>>, "LF"),
   TckHeader(<<Magic, TextLine(FALSE, TCK_HEADER_WINDOW + 300)>>, "LF"),
   TckHeader(<<Magic, DatatypeLine("Float32LE")>>, "none"),
   TckHeader(<<DatatypeLine("Int16")>>, "none")}

Triplet(x, y, z) == [x |-> x, y |-> y, z |-> z, rep |-> 1]
Block(n) == [x |-> 1, y |-> 1, z |-> 1, rep |-> n]

TckChunks ==
  {Triplet(1, 2, 3), Block(2), Block(TCK_MAX_POINTS - 1), Block(TCK_MAX_POINTS + 1),
   Triplet(NaN, NaN, NaN), Triplet(1, NaN, 1),
   Triplet(PosInf, PosInf, PosInf), Triplet(NegInf, 1, 1),
   Triplet(1, PosInf, 1), Triplet(BigF64, 1, 1)}

SeqsUpTo(S, n) == UNION {[1..k -> S] : k \in 0..n}

RECURSIVE TripletCount(_)
TripletCount(body) == IF body = <<>> THEN 0 ELSE Head(body).rep + TripletCount(Tail(body))

\* The buffer holding header h (with its END line when terminated), then the
\* body, then `tail` more bytes.
TckBuffer(h, body, tail, dtBytes) ==
  [fmt |-> "tck", lines |-> h.lines, terminated |-> h.terminated, body |-> body,
   byteLength |-> TckDataStart(h) + 3 * dtBytes * TripletCount(body) + tail]

HeaderDtBytes(h) ==
  IF \E i \in 1..Len(h.lines) : h.lines[i].value = "Float64BE" THEN 8 ELSE 4

Oversize(b) == [b EXCEPT !.byteLength = MAX_FILE_SIZE + 1]

\* The TCK buffers decoded: bodies of maxChunks chunks at most.
TckInputs(maxChunks) ==
  LET sized == {TckBuffer(h, body, 0, HeaderDtBytes(h)) :
                   h \in TckGoodHeaders, body \in SeqsUpTo(TckChunks, maxChunks)}
               \cup {TckBuffer(h, body, 5, HeaderDtBytes(h)) :
                       h \in TckGoodHeaders, body \in SeqsUpTo(TckChunks, 1)}
               \cup {TckBuffer(h, body, tail, 4) :
                       h \in TckOtherHeaders, tail \in {0, 5},
                       body \in {<<>>, <<Block(2)>>, <<Triplet(1, 2, 3), Triplet(PosInf, 1, 1)>>}}
  IN sized \cup {Oversize(b) : b \in {x \in sized : x.body = <<Block(2)>>}}

TrkHeaderOf(id, dim, voxelSize, nScalars, nProperties, nCount, hdrSize) ==
  [idString |-> id, dim |-> dim, voxelSize |-> voxelSize, nScalars |-> nScalars,
   nProperties |-> nProperties, reserved |-> 0, nCount |-> nCount, version |-> 2,
   hdrSize |-> hdrSize]

\* Headers that pass validation.
TrkGoodHeaders ==
  {TrkHeaderOf("TRACK", <<1, 1, 1>>, <<1, 1, 1>>, s, s, n, TRK_HEADER_SIZE) :
     s \in {0, 1}, n \in {0 - 1, 0, 1, 2, 5}}

\* Headers with every combination of valid and invalid fields.
TrkAnyHeaders ==
  {TrkHeaderOf(id, dim, vox, s, p, 1, hs) :
     id \in {"TRACK", "TRACKS", "NOTRK"},
     dim \in {<<1, 1, 1>>, <<0 - 1, 1, 1>>, <<1, 1, 0 - 3>>},
     vox \in {<<1, 1, 1>>, <<0, 0, 0>>, <<NaN, 1, 1>>, <<1, 0 - 1, 1>>, <<1, 1, PosInf>>},
     s \in {0 - 1, 0, TRK_MAX_CHANNELS, TRK_MAX_CHANNELS + 1},
     p \in {0, TRK_MAX_CHANNELS + 1},
     hs \in {TRK_HEADER_SIZE, 0, TRK_HEADER_SIZE - 1}}

TrkRecords ==
  {[numPoints |-> n, val |-> 1] :
     n \in {0 - 1, 0, 1, 2, TRK_MAX_POINTS, TRK_MAX_POINTS + 1}}

RECURSIVE TrkBodyBytes(_, _)
\* The bytes the records take, each laid out by its own point count.
TrkBodyBytes(records, h) ==
  IF records = <<>> THEN 0
  ELSE 4 + Max(Head(records).numPoints, 0) * 4 * (3 + Max(h.nScalars, 0))
         + 4 * Max(h.nProperties, 0) + TrkBodyBytes(Tail(records), h)

\* The buffer holding header h and the records, `cut` bytes short of its end.
TrkBuffer(h, records, cut) ==
  [fmt |-> "trk", hdr |-> h, records |-> records,
   byteLength |-> TRK_HEADER_SIZE + TrkBodyBytes(records, h) - cut]

\* How many bytes short of its last record's end a buffer stops: not at all,
\* inside the record's data, inside its 4-byte count.
TrkCuts(h, records) ==
  {0, 2} \cup (IF records = <<>> THEN {}
               ELSE {TrkBodyBytes(<<records[Len(records)]>>, h) - 2})

\* The TRK buffers decoded: maxRecords records at most.
TrkInputs(maxRecords) ==
  LET good == UNION {{TrkBuffer(h, r, cut) : cut \in TrkCuts(h, r)} :
                       h \in TrkGoodHeaders, r \in SeqsUpTo(TrkRecords, maxRecords)}
      any == {TrkBuffer(h, r, 0) : h \in TrkAnyHeaders, r \in {<<[numPoints |-> 2, val |-> 1]>>}}
  IN good \cup any
       \cup {Oversize(b) : b \in any}
       \cup {[b EXCEPT !.byteLength = TRK_HEADER_SIZE \div 2] : b \in any}

Identity4 == <<<<1, 0, 0, 0>>, <<0, 1, 0, 0>>, <<0, 0, 1, 0>>, <<0, 0, 0, 1>>>>

TrxJson(nb) ==
  [isObject |-> TRUE, VOXEL_TO_RASMM |-> Identity4, DIMENSIONS |-> <<1, 1, 1>>,
   NB_STREAMLINES |-> nb, NB_VERTICES |-> 4]

TrxEntry(name, method, data, bytes) ==
  [sig |-> TRUE, method |-> method, name |-> name, head |-> 30 + 20, csize |-> bytes,
   size |-> 30 + 20 + bytes, data |-> data]

RECURSIVE TrxBytes(_)
TrxBytes(entries) == IF entries = <<>> THEN 0 ELSE Head(entries).size + TrxBytes(Tail(entries))

\* The archive holding the entries, then a central directory.
TrxBuffer(entries) ==
  [fmt |-> "trx", entries |-> entries, byteLength |-> TrxBytes(entries) + 22]

TrxPositions == {[i \in 1..n |-> i] : n \in {0, 6, 7, 12}}
TrxOffsetValues == {0 - 2, 0, 2, 5}

\* Archives with one more entry between header.json and the arrays: a member
\* in an unsupported method, a stored member, or bytes that are not a local
\* file header.
TrxWalkArchives ==
  {TrxBuffer(<<TrxEntry("header.json", 0, TrxJson(nb), 100),
               x,
               TrxEntry("positions.3.float32", pm, <<1, 2, 3, 4, 5, 6>>, 24),
               TrxEntry("offsets.uint32", 0, <<0>>, 4)>>) :
     nb \in {1, 2}, pm \in {0, 8},
     x \in {TrxEntry("readme.txt", 12, <<>>, 10), TrxEntry("readme.txt", 0, <<>>, 10),
            [TrxEntry("readme.txt", 0, <<>>, 10) EXCEPT !.sig = FALSE]}}

\* Archives that stop `c` bytes short of the end of their last member: inside
\* its data (between two numbers, inside a number, before the first byte) or
\* inside its local file header; no central directory follows.
TrxCutArchives ==
  LET H == TrxEntry("header.json", 0, TrxJson(2), 100)
      P(pm) == TrxEntry("positions.3.float32", pm, [i \in 1..12 |-> i], 48)
      O(om) == TrxEntry("offsets.uint32", om, <<0, 2>>, 8)
      orders == {<<H, O(0), P(pm)>> : pm \in {0, 8}}
                  \cup {<<H, P(0), O(om)>> : om \in {0, 8}}
                  \cup {<<O(0), P(0), H>>}
  IN UNION {{[TrxBuffer(es) EXCEPT !.byteLength = TrxBytes(es) - c] :
               c \in {4, 6, es[3].csize, es[3].csize + 25}} : es \in orders}

\* Archives whose header.json, positions or offsets member is in a method the
\* walk does not read (12), one of them with a second, stored positions member.
TrxSkippedArchives ==
  LET H(m) == TrxEntry("header.json", m, TrxJson(1), 100)
      P(m) == TrxEntry("positions.3.float32", m, <<1, 2, 3, 4, 5, 6>>, 24)
      O(m) == TrxEntry("offsets.uint32", m, <<0>>, 4)
  IN {TrxBuffer(<<H(hm), P(pm), O(om)>>) : hm \in {0, 12}, pm \in {0, 12}, om \in {0, 12}}
       \cup {TrxBuffer(<<H(0), P(12),
                         TrxEntry("trx/positions.3.float32", 0, <<1, 2, 3, 4, 5, 6>>, 24),
                         O(0)>>)}

\* Archives whose header.json breaks one or two rules of validateTrxHeader,
\* with a positions member that can or cannot be decoded.
TrxBadJsons ==
  {[TrxJson(1) EXCEPT !.VOXEL_TO_RASMM = SubSeq(Identity4, 1, 3)],
   [TrxJson(1) EXCEPT !.VOXEL_TO_RASMM[2] = <<0, 1, 0>>],
   [TrxJson(1) EXCEPT !.VOXEL_TO_RASMM[3][3] = NonNumber],
   [TrxJson(1) EXCEPT !.DIMENSIONS = <<1, NonInteger, 1>>],
   [TrxJson(1) EXCEPT !.DIMENSIONS = <<1, 1, 0 - 1>>],
   [TrxJson(1) EXCEPT !.DIMENSIONS = <<1, 1, 1, 1>>],
   [TrxJson(1) EXCEPT !.DIMENSIONS = <<1, NonNumber, 1>>],
   [TrxJson(NonInteger) EXCEPT !.NB_VERTICES = 4],
   [TrxJson(NonNumber) EXCEPT !.NB_VERTICES = 4],
   [TrxJson(1) EXCEPT !.NB_VERTICES = 0 - 4],
   [TrxJson(1) EXCEPT !.NB_VERTICES = NonInteger],
   [TrxJson(0 - 1) EXCEPT !.NB_VERTICES = 0 - 4],
   [TrxJson(1) EXCEPT !.DIMENSIONS = <<1, 1>>, !.NB_VERTICES = NonNumber],
   [TrxJson(1) EXCEPT !.NB_VERTICES = 0]}

TrxHeaderArchives ==
  {TrxBuffer(<<TrxEntry("header.json", 0, hj, 100),
               TrxEntry(pn, 0, <<1, 2, 3, 4, 5, 6>>, 24),
               TrxEntry("offsets.uint32", 0, <<0>>, 4)>>) :
     hj \in TrxBadJsons, pn \in {"positions.3.float32", "positions.3.int8"}}

\* The TRX archives decoded: maxOffsets offsets at most.
TrxInputs(maxOffsets) ==
  LET full == {TrxBuffer(<<TrxEntry("header.json", 0, TrxJson(nb), 100),
                           TrxEntry("positions.3.float32", 8, pos, 4 * Len(pos)),
                           TrxEntry(IF \E i \in 1..Len(off) : off[i] < 0
                                      THEN "offsets.int32" ELSE "offsets.uint32",
                                    0, off, 4 * Len(off))>>) :
                 nb \in 0..3, pos \in TrxPositions,
                 off \in SeqsUpTo(TrxOffsetValues, maxOffsets)}
      odd == {TrxBuffer(<<TrxEntry(hn, hm, hj, 100),
                          TrxEntry(pn, 0, <<1, 2, 3, 4, 5, 6>>, 24),
                          TrxEntry(on, 0, <<0>>, 4)>>) :
                hn \in {"header.json", "trx/header.json", "readme.txt"},
                hm \in {0, 12},
                hj \in {TrxJson(1), TrxJson(0 - 1), [TrxJson(1) EXCEPT !.isObject = FALSE],
                        [TrxJson(1) EXCEPT !.DIMENSIONS = <<1, 1>>]},
                pn \in {"positions.3.float32", "positions.3.int8", "dps/x.float32"},
                on \in {"offsets.uint32", "offsets.uint16", "dps/y.float32"}}
  IN full \cup odd \cup {Oversize(b) : b \in odd} \cup TrxWalkArchives \cup TrxCutArchives
       \cup TrxSkippedArchives \cup TrxHeaderArchives


\* ====================================================== editor and webview
\* The editor of a document (resolveCustomEditor), the page it shows
\* (TrkViewerApp) and the page's TrkRenderer.  A brightness is kept in percent,
\* as the brightness slider holds it, a tube radius in tenths.  The colours of
\* the geometry are kept as what they are computed from: per drawn streamline
\* the colouring that applied and the points, and the gamma exponents applied
\* to them since, each written as the brightness it came from.

\* config.get('maxStreamlines', 10000), config.get('skipThreshold', 5000),
\* config.get('tubeRadius', 0.3)
DefaultMaxStreamlines == 10000
DefaultSkipThreshold == 5000
DefaultTubeRadius == 3

\* <input type="range" id="streamline-slider" min="100" max="10000" value="5000">
SliderMin == 100
SliderMax == 10000
SliderValue == 5000

\* <input type="range" id="brightness-slider" min="20" max="150" value="20">
BrightnessSliderValue == 20

\* private brightness: number = 1.0
FullBrightness == 100

\* const maxTubes = Math.min(streamlines.length, 2000)
MAX_TUBES == 2000

\* What JSON makes of NaN and of the infinities: null.
JsonNull == PosInf + 4
JsonNumber(x) == IF x \in {NaN, PosInf, NegInf} THEN JsonNull ELSE x

\* A bounding box as the page receives it.
JsonBox(box) ==
  [min |-> [a \in 1..3 |-> JsonNumber(box.min[a])],
   max |-> [a \in 1..3 |-> JsonNumber(box.max[a])],
   center |-> [a \in 1..3 |-> Half(JsonNumber(box.center[a].halves))],
   size |-> SqrtOf(JsonNumber(box.size.sqrtOf))]

\* A value that may be null or undefined.
Absent(v) == [defined |-> FALSE, value |-> v]
Present(v) == [defined |-> TRUE, value |-> v]

\* The length the editor computes for a streamline: the sum of the lengths
\* of its segments, kept as their radicands.
ArcLength(s) ==
  LET flat == Flat(s.points)
      d(i, a) == JsSub(ElementAt(flat, i * 3 + a), ElementAt(flat, (i - 1) * 3 + a))
  IN [i \in 1..(s.numPoints - 1) |->
        SqrtOf(JsAdd(JsAdd(Pow2(d(i, 0)), Pow2(d(i, 1))), Pow2(d(i, 2))))]

\* sampled.map(s => ({points, numPoints, length, scalars})): the first scalar
\* channel when the streamline has one, undefined otherwise.
StreamlineData(s) ==
  [points |-> s.points,
   numPoints |-> s.numPoints,
   length |-> ArcLength(s),
   scalars |-> IF Len(s.scalars) > 0 THEN Present(s.scalars[1]) ELSE Absent(<<>>)]

StreamlineDataOf(sampled) == [i \in 1..Len(sampled) |-> StreamlineData(sampled[i])]

\* s.scalars && s.scalars.length > 0
HasScalarData(s) == s.scalars.defined /\ ArrLen(s.scalars.value) > 0

\* A test that finds scalar data in every streamline.
AlwaysScalars(mode, hasScalars) == FALSE

\* if (mode === 'scalar' && !this.hasScalars) return
ScalarRefused(mode, hasScalars) == mode = "scalar" /\ ~hasScalars

\* A page that renders whether or not it has a renderer.
RendererNeverMissing(made) == FALSE

\* if (!this.renderer) return
RendererMissing(made) == ~made

NoTract == [kind |-> "none", colors |-> <<>>, gammas |-> <<>>]
NoCamera == [centered |-> FALSE, center |-> <<Half(0), Half(0), Half(0)>>, size |-> SqrtOf(0)]
EmptyBox == calculateBoundingBox(<<>>)

\* The fields of a TrkRenderer; `made` is whether the page has constructed it.
NoRenderer ==
  [made |-> FALSE, streamlines |-> <<>>, boundingBox |-> Absent(EmptyBox),
   currentMode |-> "lines", tubeRadius |-> DefaultTubeRadius,
   brightness |-> FullBrightness, lights |-> Absent(FullBrightness),
   originalColors |-> Absent(<<>>), currentColoringMode |-> "orientation",
   hasScalars |-> FALSE, minScalar |-> 0, maxScalar |-> 1,
   tract |-> NoTract, camera |-> NoCamera]

\* new TrkRenderer(canvas)
NewRenderer == [NoRenderer EXCEPT !.made = TRUE]

\* The colouring that applies to one streamline: by length (the editor gives
\* every streamline a length), by scalar when it has scalars, by orientation.
ColorBy(s, mode) ==
  CASE mode = "length" -> "length"
    [] mode = "scalar" /\ s.scalars.defined -> "scalar"
    [] OTHER -> "orientation"

RECURSIVE RangeFold(_, _)
\* for (const v of s.scalars): the running minimum and maximum
RangeFold(values, range) ==
  IF values = <<>> THEN range
  ELSE RangeFold(Tail(values), [min |-> MathMin(range.min, Head(values).v),
                                max |-> MathMax(range.max, Head(values).v)])

RECURSIVE ScalarRange(_, _)
\* for (const s of streamlines): the range after the scalars of all, the
\* list taken by halves as in BoxFold.
ScalarRange(streamlines, range) ==
  LET n == Len(streamlines)
  IN IF n = 0 THEN range
     ELSE IF n = 1
       THEN (IF HasScalarData(streamlines[1])
               THEN RangeFold(streamlines[1].scalars.value, range)
               ELSE range)
     ELSE LET first == ScalarRange(SubSeq(streamlines, 1, n \div 2), range)
              second == ScalarRange(SubSeq(streamlines, n \div 2 + 1, n),
                                    [min |-> PosInf, max |-> NegInf])
          IN [min |-> MathMin(first.min, second.min),
              max |-> MathMax(first.max, second.max)]

\* calculateColorRanges(streamlines): whether any streamline has scalars, and
\* the range of the scalars; the range of the lengths is a function of the
\* streamlines the colours name.
calculateColorRanges(r, streamlines) ==
  LET range == ScalarRange(streamlines, [min |-> PosInf, max |-> NegInf])
  IN [r EXCEPT !.hasScalars = \E i \in 1..Len(streamlines) : HasScalarData(streamlines[i]),
               !.minScalar = IF range.min \in {NaN, PosInf, NegInf} THEN 0 ELSE range.min,
               !.maxScalar = IF range.max \in {NaN, PosInf, NegInf} THEN 1 ELSE range.max]

\* The colours renderAsLines computes: those of the streamlines of 2 points
\* or more.
LineColors(streamlines, mode) ==
  LET drawn == SelectSeq(streamlines, LAMBDA s : s.numPoints >= 2)
  IN [i \in 1..Len(drawn) |-> [by |-> ColorBy(drawn[i], mode), points |-> drawn[i].points]]

\* renderAsLines(streamlines): one LineSegments with the colours as computed,
\* which originalColors then copies.
renderAsLines(r, streamlines) ==
  LET ranged == calculateColorRanges(r, streamlines)
      colors == LineColors(streamlines, r.currentColoringMode)
  IN IF colors = <<>> THEN ranged
     ELSE [ranged EXCEPT !.tract = [kind |-> "lines", colors |-> colors, gammas |-> <<>>],
                         !.originalColors = Present(colors)]

\* for (let i = 0; i < streamlines.length && children.length < maxTubes; i += step):
\* of the streamlines at 0, step, 2 * step, ... those of 2 points or more,
\* until maxTubes tubes are made.
TubeLoop(streamlines, step, maxTubes, mode) ==
  LET visited == [k \in 1..((Len(streamlines) + step - 1) \div step) |->
                    streamlines[(k - 1) * step + 1]]
      drawn == SelectSeq(visited, LAMBDA s : s.numPoints >= 2)
  IN [i \in 1..Min(Len(drawn), maxTubes) |->
        [by |-> ColorBy(drawn[i], mode), points |-> drawn[i].points]]

\* renderAsTubes(streamlines): one Mesh per tube.
renderAsTubes(r, streamlines) ==
  LET ranged == calculateColorRanges(r, streamlines)
      maxTubes == Min(Len(streamlines), MAX_TUBES)
      step == Max(1, Len(streamlines) \div maxTubes)
      tubes == TubeLoop(streamlines, step, maxTubes, r.currentColoringMode)
  IN IF tubes = <<>> THEN ranged
     ELSE [ranged EXCEPT !.tract = [kind |-> "tubes", colors |-> tubes, gammas |-> <<>>]]

clearTract(r) == [r EXCEPT !.tract = NoTract]

\* centerCamera(boundingBox): the camera placed from the centre and the size.
centerCamera(r, boundingBox) ==
  [r EXCEPT !.camera = [centered |-> TRUE, center |-> boundingBox.center,
                        size |-> boundingBox.size]]

\* The geometry of the streamlines in the current mode.
Rendered(r, streamlines) ==
  IF r.currentMode = "tubes" THEN renderAsTubes(r, streamlines)
  ELSE renderAsLines(r, streamlines)

\* renderStreamlines(streamlines, boundingBox, mode)
renderStreamlines(r, streamlines, boundingBox, mode) ==
  LET cleared == clearTract([r EXCEPT !.streamlines = streamlines,
                                      !.boundingBox = Present(boundingBox),
                                      !.currentMode = mode])
  IN IF Len(streamlines) = 0 THEN cleared
     ELSE centerCamera(Rendered(cleared, streamlines), boundingBox)

\* The re-render of setRenderMode and setColoringMode.
Rerendered(r) ==
  IF Len(r.streamlines) > 0 /\ r.boundingBox.defined
    THEN Rendered(clearTract(r), r.streamlines)
    ELSE r

\* TrkRenderer.setRenderMode(mode)
RendererSetRenderMode(r, mode) ==
  IF mode = r.currentMode THEN r
  ELSE Rerendered([r EXCEPT !.currentMode = mode])

\* TrkRenderer.setColoringMode(mode)
RendererSetColoringMode(r, mode) ==
  IF mode = r.currentColoringMode THEN r
  ELSE IF ScalarRefused(mode, r.hasScalars) THEN r
  ELSE Rerendered([r EXCEPT !.currentColoringMode = mode])

\* setBrightness(brightness): the lights scaled, and in lines mode the colours
\* of the LineSegments set to originalColors raised to 1 / brightness.
setBrightness(r, brightness) ==
  LET lit == [r EXCEPT !.brightness = brightness, !.lights = Present(brightness)]
  IN IF r.currentMode = "lines" /\ r.originalColors.defined /\ r.tract.kind = "lines"
       THEN [lit EXCEPT !.tract = [kind |-> "lines", colors |-> r.originalColors.value,
                                   gammas |-> <<brightness>>]]
       ELSE lit

\* The page before its script has run: the controls as the HTML gives them.
NoPage ==
  [loaded |-> FALSE, currentMode |-> "lines", maxStreamlines |-> DefaultMaxStreamlines,
   totalStreamlines |-> 0,
   slider |-> [max |-> SliderMax, value |-> SliderValue],
   brightnessSlider |-> BrightnessSliderValue,
   scalarDisabled |-> TRUE, controlsShown |-> FALSE, coloringButton |-> "orientation",
   counts |-> Absent([displayed |-> 0, total |-> 0, skipFactor |-> 1])]

\* The value a range input holds after `value` is assigned: within min and
\* max, and min when max is below it.
RangeValue(value, max) == Max(SliderMin, Min(value, max))

\* handleInit(data), on the renderer: constructed, set up, the streamlines
\* rendered and the brightness of the slider applied.
InitRenderer(data, brightness) ==
  setBrightness(
    renderStreamlines([NewRenderer EXCEPT !.tubeRadius = data.settings.tubeRadius],
                      data.streamlines, data.boundingBox, data.settings.renderMode),
    brightness)

\* handleInit(data), on the page.
InitPage(p, data) ==
  [p EXCEPT !.currentMode = data.settings.renderMode,
            !.maxStreamlines = data.settings.maxStreamlines,
            !.totalStreamlines = data.totalStreamlines,
            !.slider = [max |-> Min(data.settings.maxStreamlines, data.totalStreamlines),
                        value |-> RangeValue(data.displayedStreamlines,
                                             Min(data.settings.maxStreamlines,
                                                 data.totalStreamlines))],
            !.counts = Present([displayed |-> data.displayedStreamlines,
                                total |-> data.totalStreamlines,
                                skipFactor |-> data.skipFactor]),
            !.scalarDisabled =
               ~\E i \in 1..Len(data.streamlines) : HasScalarData(data.streamlines[i]),
            !.controlsShown = TRUE]

\* The document of an editor that is not open, and its editor.
NoHost ==
  [opened |-> FALSE, streamlines |-> <<>>, format |-> "none",
   settings |-> [maxStreamlines |-> DefaultMaxStreamlines,
                 skipThreshold |-> DefaultSkipThreshold,
                 renderMode |-> "lines", tubeRadius |-> DefaultTubeRadius],
   sampled |-> <<>>, skipFactor |-> 1, totalCount |-> 0, boundingBox |-> EmptyBox]


\* =========================================================== state machine
\* A caller decodes a buffer, may decode the same buffer again, and may write
\* into what it holds: a header array of a result, or its own buffer.
VARIABLES
  buffer,              \* the caller's buffer
  results,             \* the results of the decode calls on it, oldest first
  seen,                \* what each result read as when its call returned
  written,             \* what the caller wrote into: result indices, "buffer"
  DEFAULT_DIMENSIONS,  \* the module-level array of streamlineTypes
  DEFAULT_VOXEL_SIZE,  \* the module-level array of streamlineTypes
  call,                \* the utility call made: the function and its arguments
  ret,                 \* what the utility call returned
  host,                \* the editor of a document: what resolveCustomEditor holds
  page,                \* the webview page: the TrkViewerApp and the controls it reads
  renderer,            \* the TrkRenderer of the page
  toHost,              \* the messages the page posted, not yet received
  toView,              \* the messages the editor posted, not yet received
  loads                \* how many times the page was loaded

\* What a call of a post-decode utility or of a probe reads and writes.
utilVars == <<call, ret>>

\* What the editor and its webview read and write.
viewVars == <<host, page, renderer, toHost, toView, loads>>

vars ==
  <<buffer, results, seen, written, DEFAULT_DIMENSIONS, DEFAULT_VOXEL_SIZE, call, ret,
    host, page, renderer, toHost, toView, loads>>

NoCall == [fn |-> "none"]

\* The header arrays the caller writes into.
WrittenFields == {"dim", "voxelSize"}

NoBuffer == [fmt |-> "none", byteLength |-> 0]

\* The value a header field reads as, given the objects it may refer to.
Read(field, buf, dims, vox) ==
  CASE field.ref = "own" -> field.val
    [] field.ref = "DEFAULT_DIMENSIONS" -> dims
    [] field.ref = "DEFAULT_VOXEL_SIZE" -> vox
    [] field.ref = "buffer" -> buf.hdr.reserved

\* A result as its holder reads it: every reference followed.
View(r, buf, dims, vox) ==
  IF ~r.ok THEN r
  ELSE [r EXCEPT !.header =
          IF r.header.format = "trk"
            THEN [r.header EXCEPT !.dim = Read(r.header.dim, buf, dims, vox),
                                  !.voxelSize = Read(r.header.voxelSize, buf, dims, vox),
                                  !.reserved = Read(r.header.reserved, buf, dims, vox)]
            ELSE [r.header EXCEPT !.dim = Read(r.header.dim, buf, dims, vox),
                                  !.voxelSize = Read(r.header.voxelSize, buf, dims, vox)]]

Now(r) == View(r, buffer, DEFAULT_DIMENSIONS, DEFAULT_VOXEL_SIZE)

\* TractDocument.parseFile: the decoder of the format.
Decode(b) ==
  CASE b.fmt = "tck" -> parseTckFile(b)
    [] b.fmt = "trx" -> parseTrxFile(b)
    [] OTHER -> parseTrkFile(b)

Init ==
  /\ buffer = NoBuffer
  /\ results = <<>>
  /\ seen = <<>>
  /\ written = {}
  /\ DEFAULT_DIMENSIONS = <<0, 0, 0>>
  /\ DEFAULT_VOXEL_SIZE = <<1, 1, 1>>
  /\ call = NoCall
  /\ ret = NoCall
  /\ host = NoHost
  /\ page = NoPage
  /\ renderer = NoRenderer
  /\ toHost = <<>>
  /\ toView = <<>>
  /\ loads = 0

\* A decode call on buffer b, the caller keeping what it already holds.
Call(b) ==
  /\ buffer' = b
  /\ results' = Append(results, Decode(b))
  /\ seen' = Append(seen, View(Decode(b), b, DEFAULT_DIMENSIONS, DEFAULT_VOXEL_SIZE))
  /\ UNCHANGED <<written, DEFAULT_DIMENSIONS, DEFAULT_VOXEL_SIZE>>
  /\ UNCHANGED utilVars
  /\ UNCHANGED viewVars

ParseTrk == results = <<>> /\ \E b \in TrkInputs(MaxTrkRecords) : Call(b)
ParseTck == results = <<>> /\ \E b \in TckInputs(MaxTckChunks) : Call(b)
ParseTrx == results = <<>> /\ \E b \in TrxInputs(MaxTrxOffsets) : Call(b)

\* The buffers of the runs in which the caller goes on to use what it holds.
HeldTck ==
  {TckBuffer(h, body, 0, HeaderDtBytes(h)) :
     h \in TckGoodHeaders \cup {TckHeader(<<Magic>>, "LF"), TckHeader(<<Magic>>, "none"),
                                  TckHeader(<<DatatypeLine("Int16")>>, "LF")},
     body \in {<<>>, <<Block(2)>>, <<Triplet(1, 2, 3), Triplet(1, 2, 3), Triplet(NaN, 1, 1)>>}}
HeldTrk ==
  {TrkBuffer(h, r, 0) :
     h \in {TrkHeaderOf(id, <<1, 1, 1>>, <<1, 1, 1>>, 0, 0, n, TRK_HEADER_SIZE) :
              id \in {"TRACK", "NOTRK"}, n \in {0, 1}},
     r \in SeqsUpTo({[numPoints |-> 2, val |-> 1]}, 2)}
HeldTrx ==
  {TrxBuffer(<<TrxEntry("header.json", 0, TrxJson(nb), 100),
               TrxEntry("positions.3.float32", 0, <<1, 2, 3, 4, 5, 6>>, 24),
               TrxEntry("offsets.uint32", 0, <<0>>, 4)>>) : nb \in 0..1}

\* A first decode call in such a run.
ParseHeld ==
  /\ results = <<>>
  /\ \/ \E b \in HeldTck : Call(b)
     \/ \E b \in HeldTrk : Call(b)
     \/ \E b \in HeldTrx : Call(b)

\* The same buffer decoded a second time.
ParseAgain == Len(results) = 1 /\ Call(buffer)

\* The caller stores 7 into element 0 of header.dim (or header.voxelSize) of
\* the i-th result it holds.
WriteHeaderArray ==
  \E i \in 1..Len(results), f \in WrittenFields :
    /\ results[i].ok
    /\ LET field == IF f = "dim" THEN results[i].header.dim ELSE results[i].header.voxelSize
           new == [Read(field, buffer, DEFAULT_DIMENSIONS, DEFAULT_VOXEL_SIZE) EXCEPT ![1] = 7]
       IN /\ new # Read(field, buffer, DEFAULT_DIMENSIONS, DEFAULT_VOXEL_SIZE)
          /\ DEFAULT_DIMENSIONS' =
               IF field.ref = "DEFAULT_DIMENSIONS" THEN new ELSE DEFAULT_DIMENSIONS
          /\ DEFAULT_VOXEL_SIZE' =
               IF field.ref = "DEFAULT_VOXEL_SIZE" THEN new ELSE DEFAULT_VOXEL_SIZE
          /\ results' =
               IF field.ref # "own" THEN results
               ELSE IF f = "dim" THEN [results EXCEPT ![i].header.dim = Owned(new)]
               ELSE [results EXCEPT ![i].header.voxelSize = Owned(new)]
    /\ written' = written \cup {i}
    /\ UNCHANGED <<buffer, seen>>
    /\ UNCHANGED utilVars
  /\ UNCHANGED viewVars

\* The caller stores 1 into a byte of header.reserved of the i-th result (TRK).
WriteReserved ==
  \E i \in 1..Len(results) :
    /\ results[i].ok /\ results[i].header.format = "trk"
    /\ buffer.hdr.reserved = 0
    /\ buffer' = [buffer EXCEPT !.hdr.reserved = 1]
    /\ written' = written \cup {i}
    /\ UNCHANGED <<results, seen, DEFAULT_DIMENSIONS, DEFAULT_VOXEL_SIZE>>
    /\ UNCHANGED utilVars
  /\ UNCHANGED viewVars

\* The caller stores 1 into a byte of the reserved region of its TRK buffer.
WriteBuffer ==
  /\ Len(results) >= 1
  /\ buffer.fmt = "trk" /\ buffer.hdr.reserved = 0
  /\ buffer' = [buffer EXCEPT !.hdr.reserved = 1]
  /\ written' = written \cup {0}
  /\ UNCHANGED <<results, seen, DEFAULT_DIMENSIONS, DEFAULT_VOXEL_SIZE>>
  /\ UNCHANGED utilVars
  /\ UNCHANGED viewVars

\* Decoding: one call on any buffer.
Next ==
  \/ ParseTrk
  \/ ParseTck
  \/ ParseTrx

Spec == Init /\ [][Next]_vars

\* Sharing: a caller that keeps its buffer and its results and writes into them.
NextHeld ==
  \/ ParseHeld
  \/ ParseAgain
  \/ WriteHeaderArray
  \/ WriteReserved
  \/ WriteBuffer

SpecHeld == Init /\ [][NextHeld]_vars

\* What the decoders' caller holds, untouched by a utility call.
decodeVars == <<buffer, results, seen, written, DEFAULT_DIMENSIONS, DEFAULT_VOXEL_SIZE>>

\* A streamline told from the others by its coordinates.
Line(k) ==
  [points |-> <<[v |-> k, n |-> 6]>>, numPoints |-> 2, scalars |-> <<>>, properties |-> <<>>]

\* The streamline lists of a document: MaxTotal streamlines at most.
Documents == {[i \in 1..n |-> Line(i)] : n \in 0..MaxTotal}

\* applySkipSampling(streamlines, maxCount, skipThreshold), as the editor
\* calls it with the configured or requested count and the threshold.
ApplySkipSampling ==
  /\ call = NoCall
  /\ \E streamlines \in Documents, maxCount \in 0..(MaxTotal + 1),
        skipThreshold \in 0..(MaxTotal + 1) :
        /\ call' = [fn |-> "applySkipSampling", streamlines |-> streamlines,
                    maxCount |-> maxCount, skipThreshold |-> skipThreshold,
                    after |-> streamlines]
        /\ ret' = applySkipSampling(streamlines, maxCount, skipThreshold)
  /\ UNCHANGED decodeVars
  /\ UNCHANGED viewVars

\* A streamline through the given points.
Through(pts) ==
  [points |-> [i \in 1..(3 * Len(pts)) |-> [v |-> pts[(i + 2) \div 3][((i - 1) % 3) + 1], n |-> 1]],
   numPoints |-> Len(pts), scalars |-> <<>>, properties |-> <<>>]

BoxPoints == {<<0, 0, 0>>, <<2, 4, 6>>, <<0 - 1, 5, 0 - 3>>, <<1, 1, 1>>}

\* The streamlines handed to calculateBoundingBox: one or two points from
\* BoxPoints, a streamline of equal coordinates, and streamlines with an
\* infinite or a NaN coordinate, as a TRK or TRX file can hold them.
BoxStreamlines ==
  {Through(<<p>>) : p \in BoxPoints}
    \cup {Through(<<p, q>>) : p \in BoxPoints, q \in BoxPoints}
    \cup {Line(3), Through(<<<<0, PosInf, 0>>, <<1, 1, 1>>>>),
          Through(<<<<0, 0, 0>>, <<1, NaN, 1>>>>)}

\* calculateBoundingBox(sampled)
CalculateBoundingBox ==
  /\ call = NoCall
  /\ \E streamlines \in SeqsUpTo(BoxStreamlines, MaxBoxStreamlines) :
        /\ call' = [fn |-> "calculateBoundingBox", streamlines |-> streamlines,
                    after |-> streamlines]
        /\ ret' = calculateBoundingBox(streamlines)
  /\ UNCHANGED decodeVars
  /\ UNCHANGED viewVars

\* A segment of leading bytes: `chars` bytes that spell `text`, in `bytes`
\* bytes in all.
Seg(text, chars, bytes) == [text |-> text, chars |-> chars, bytes |-> bytes]

\* The leading bytes of a buffer of the decoders: the 6-byte ID string of a
\* TRK header, the lines of a TCK header, the signature of the first entry of
\* a TRX archive.
Leading(b) ==
  CASE b.fmt = "trk" ->
         [byteLength |-> b.byteLength, fmt |-> "trk", decodes |-> Decode(b).ok,
          segs |-> <<Seg(b.hdr.idString, 5, 6), Seg("", 0, TRK_HEADER_SIZE - 6)>>]
    [] b.fmt = "tck" ->
         [byteLength |-> b.byteLength, fmt |-> "tck", decodes |-> Decode(b).ok,
          segs |-> [i \in 1..Len(b.lines) |->
                      IF b.lines[i].phrase THEN Seg("mrtrix tracks", 13, b.lines[i].bytes)
                      ELSE Seg("", 0, b.lines[i].bytes)]]
    [] OTHER ->
         [byteLength |-> b.byteLength, fmt |-> "trx", decodes |-> Decode(b).ok,
          segs |-> <<Seg(IF b.entries[1].sig THEN "PK\\3\\4" ELSE "", 4, 30),
                     Seg("", 0, b.entries[1].size - 30)>>]

\* The texts a fragment can spell, and the bytes each takes.
FragmentTexts ==
  {"TRACK", "track", "mrtrix tracks", "MRtrix Tracks", "MRTRIX TRACKS", "mrtrix track",
   "PK\\3\\4", "PK\\1\\2", ""}
CharsOf(text) ==
  CASE text \in {"TRACK", "track"} -> 5
    [] text \in {"mrtrix tracks", "MRtrix Tracks", "MRTRIX TRACKS"} -> 13
    [] text = "mrtrix track" -> 12
    [] OTHER -> 4

\* Buffers that are no file of a format: a text (or none) after `lead` other
\* bytes, cut at any length around the places the probes test.
Fragments ==
  {[byteLength |-> n, fmt |-> "none", decodes |-> FALSE,
    segs |-> <<Seg("", 0, lead), Seg(text, CharsOf(text), CharsOf(text) + 1),
               Seg("", 0, 200)>>] :
     n \in {0, 3, 4, 5, 6, 13, 14, 99, 100, 101, 150},
     lead \in {0, 1, 86, 87, 88},
     text \in FragmentTexts}

\* A TRK file whose first scalar name, at byte 36, is 'mrtrix tracks'.
NamedScalarTrk ==
  [byteLength |-> TRK_HEADER_SIZE, fmt |-> "trk", decodes |-> TRUE,
   segs |-> <<Seg("TRACK", 5, 36), Seg("mrtrix tracks", 13, 20),
              Seg("", 0, TRK_HEADER_SIZE - 56)>>]

ProbeInputs ==
  {Leading(b) : b \in HeldTrk \cup HeldTck \cup HeldTrx}
    \cup {[Leading(b) EXCEPT !.byteLength = n, !.decodes = FALSE] :
            b \in HeldTrk \cup HeldTrx, n \in {3, 4, 5, 6}}
    \cup Fragments \cup {NamedScalarTrk}

\* The three probes on one buffer.
ProbeFormat ==
  /\ call = NoCall
  /\ \E b \in ProbeInputs :
        /\ call' = [fn |-> "probe", buffer |-> b]
        /\ ret' = [isTrkFile |-> isTrkFile(b), isTckFile |-> isTckFile(b),
                   isTrxFile |-> isTrxFile(b)]
  /\ UNCHANGED decodeVars
  /\ UNCHANGED viewVars

\* The utilities: one call on any arguments.
NextUtil ==
  \/ ApplySkipSampling
  \/ CalculateBoundingBox
  \/ ProbeFormat

SpecUtil == Init /\ [][NextUtil]_vars

\* What is outside the editor and its webview.
restVars == <<buffer, results, seen, written, DEFAULT_DIMENSIONS, DEFAULT_VOXEL_SIZE, call, ret>>

\* Files opened in the editor, each one its decoder accepts: a TCK file
\* without streamlines, a TRK file of two streamlines with a scalar channel.
ViewFiles ==
  {TckBuffer(TckHeader(<<Magic, DatatypeLine("Float32LE"), CountLine(1)>>, "LF"), <<>>, 0, 4),
   TrkBuffer(TrkHeaderOf("TRACK", <<1, 1, 1>>, <<1, 1, 1>>, 1, 0, 2, TRK_HEADER_SIZE),
             <<[numPoints |-> 2, val |-> 1], [numPoints |-> 3, val |-> 2]>>, 0)}

\* TractDocument.create: the documents of the editor, which are what the
\* decoder made of each file, and the document of a TRK file of
\* ManyStreamlines records of 2 points, without scalars.
ViewDocuments ==
  {[format |-> b.fmt, streamlines |-> Decode(b).streamlines] : b \in ViewFiles}
    \cup {[format |-> "trk", streamlines |-> [i \in 1..ManyStreamlines |-> Line(i)]]}

\* The settings of the workspace: the defaults, and a lower count and
\* threshold with tubes as the default render mode.
ViewSettings ==
  {[maxStreamlines |-> DefaultMaxStreamlines, skipThreshold |-> DefaultSkipThreshold,
    renderMode |-> "lines", tubeRadius |-> DefaultTubeRadius],
   [maxStreamlines |-> SliderMin, skipThreshold |-> SliderMin,
    renderMode |-> "tubes", tubeRadius |-> DefaultTubeRadius]}

\* resolveCustomEditor(document, webviewPanel): the settings read, the
\* document sampled and its bounding box calculated.
OpenEditor ==
  /\ ~host.opened
  /\ \E document \in ViewDocuments, settings \in ViewSettings :
       LET s == applySkipSampling(document.streamlines, settings.maxStreamlines,
                                  settings.skipThreshold)
       IN host' = [opened |-> TRUE, streamlines |-> document.streamlines,
                   format |-> document.format, settings |-> settings,
                   sampled |-> s.sampled, skipFactor |-> s.skipFactor,
                   totalCount |-> s.totalCount,
                   boundingBox |-> calculateBoundingBox(s.sampled)]
  /\ UNCHANGED <<page, renderer, toHost, toView, loads>>
  /\ UNCHANGED restVars

\* new TrkViewerApp(): the script of the page runs, on the first load and on
\* a reload of the webview, and posts 'ready'.
LoadPage ==
  /\ host.opened
  /\ loads < MaxLoads
  /\ Len(toHost) < MaxInFlight
  /\ page' = [NoPage EXCEPT !.loaded = TRUE]
  /\ renderer' = NoRenderer
  /\ toHost' = Append(toHost, [type |-> "ready"])
  /\ loads' = loads + 1
  /\ UNCHANGED <<host, toView>>
  /\ UNCHANGED restVars

\* sendInitialData(): the 'init' message.
InitMessage(h) ==
  [type |-> "init",
   data |-> [streamlines |-> StreamlineDataOf(h.sampled),
             totalStreamlines |-> h.totalCount,
             displayedStreamlines |-> Len(h.sampled),
             skipFactor |-> h.skipFactor,
             boundingBox |-> h.boundingBox,
             settings |-> h.settings,
             format |-> h.format]]

\* case 'updateStreamlineCount': the 'updateStreamlines' message.
UpdateMessage(h, newCount) ==
  LET s == applySkipSampling(h.streamlines, newCount, h.settings.skipThreshold)
  IN [type |-> "updateStreamlines",
      data |-> [streamlines |-> StreamlineDataOf(s.sampled),
                displayedStreamlines |-> Len(s.sampled),
                skipFactor |-> s.skipFactor,
                boundingBox |-> calculateBoundingBox(s.sampled)]]

\* webview.onDidReceiveMessage: the editor receives the oldest message of the
\* page.
HostReceive ==
  /\ toHost # <<>>
  /\ Head(toHost).type \in {"ready", "updateStreamlineCount"} => Len(toView) < MaxInFlight
  /\ toHost' = Tail(toHost)
  /\ toView' =
       CASE Head(toHost).type = "ready" -> Append(toView, InitMessage(host))
         [] Head(toHost).type = "updateStreamlineCount" ->
              Append(toView, UpdateMessage(host, Head(toHost).count))
         [] OTHER -> toView
  /\ UNCHANGED <<host, page, renderer, loads>>
  /\ UNCHANGED restVars

\* A message as the page receives it.
Received(message) ==
  [message EXCEPT !.data.boundingBox = JsonBox(message.data.boundingBox)]

\* handleUpdateStreamlines(data), on the page: updateUI.
UpdatePage(p, data) ==
  [p EXCEPT !.counts = Present([displayed |-> data.displayedStreamlines,
                                total |-> p.totalStreamlines,
                                skipFactor |-> data.skipFactor])]

\* window 'message': the page receives the oldest message of the editor, and
\* handles it in handleInit or in handleUpdateStreamlines.
PageReceive ==
  /\ page.loaded
  /\ toView # <<>>
  /\ toView' = Tail(toView)
  /\ LET message == Received(Head(toView))
     IN IF message.type = "init"
          THEN /\ renderer' = InitRenderer(message.data, page.brightnessSlider)
               /\ page' = InitPage(page, message.data)
          ELSE IF RendererMissing(renderer.made)
                 THEN UNCHANGED <<page, renderer>>
                 ELSE /\ renderer' = renderStreamlines(renderer, message.data.streamlines,
                                                       message.data.boundingBox,
                                                       page.currentMode)
                      /\ page' = UpdatePage(page, message.data)
  /\ UNCHANGED <<host, toHost, loads>>
  /\ UNCHANGED restVars

\* The values the user leaves the streamline slider at.
SliderStops == {SliderMin, ManyStreamlines}

\* slider 'input' then 'change': requestStreamlineUpdate(value).
SliderChange ==
  /\ page.controlsShown
  /\ Len(toHost) < MaxInFlight
  /\ \E value \in SliderStops :
       /\ value = SliderMin \/ value <= page.slider.max
       /\ page' = [page EXCEPT !.slider.value = value,
                               !.counts.value.displayed = value]
       /\ toHost' = Append(toHost, [type |-> "updateStreamlineCount", count |-> value])
  /\ UNCHANGED <<host, renderer, toView, loads>>
  /\ UNCHANGED restVars

\* TrkViewerApp.setRenderMode(mode), from the Lines and Tubes buttons.
SetRenderMode ==
  /\ page.controlsShown
  /\ \E mode \in {"lines", "tubes"} :
       /\ mode # page.currentMode
       /\ page' = [page EXCEPT !.currentMode = mode]
       /\ renderer' = IF renderer.made THEN RendererSetRenderMode(renderer, mode)
                      ELSE renderer
  /\ UNCHANGED <<host, toHost, toView, loads>>
  /\ UNCHANGED restVars

\* TrkViewerApp.setColoringMode(mode): a request for a colouring mode.  The
\* handler does not test whether the Scalar button is disabled, and the
\* request is taken for every mode.
SetColoringMode ==
  /\ page.controlsShown
  /\ ~RendererMissing(renderer.made)
  /\ \E mode \in {"orientation", "length", "scalar"} :
       /\ renderer' = RendererSetColoringMode(renderer, mode)
       /\ page' = [page EXCEPT !.coloringButton = mode]
  /\ UNCHANGED <<host, toHost, toView, loads>>
  /\ UNCHANGED restVars

\* The values the user moves the brightness slider to.
BrightnessStops == {BrightnessSliderValue, FullBrightness}

\* brightness slider 'input', and the debounced update it arms, which runs
\* 50 ms after the last input: this.renderer?.setBrightness(value / 100).
BrightnessInput ==
  /\ page.controlsShown
  /\ \E value \in BrightnessStops :
       /\ page' = [page EXCEPT !.brightnessSlider = value]
       /\ renderer' = IF renderer.made THEN setBrightness(renderer, value) ELSE renderer
  /\ UNCHANGED <<host, toHost, toView, loads>>
  /\ UNCHANGED restVars

\* Viewing: an editor, its page and the user at the controls.
NextView ==
  \/ OpenEditor
  \/ LoadPage
  \/ HostReceive
  \/ PageReceive
  \/ SliderChange
  \/ SetRenderMode
  \/ SetColoringMode
  \/ BrightnessInput

SpecView == Init /\ [][NextView]_vars


\* ================================================================== claims
\* What the claims speak of, written from their wording.

\* The streamlines of the results the caller holds.
Held == {results[i] : i \in 1..Len(results)}
OkHeld == {r \in Held : r.ok}
StreamlinesOf(r) == {r.streamlines[j] : j \in 1..Len(r.streamlines)}

\* The end-of-data sentinel of a TCK body, and the separator.
IsSentinel(c) == c.x \in {PosInf, NegInf}
IsSeparator(c) == ~IsSentinel(c) /\ NaN \in {c.x, c.y, c.z}

\* The index of the first sentinel of a body, or 0.
FirstSentinel(body) ==
  IF \E k \in 1..Len(body) : IsSentinel(body[k])
    THEN CHOOSE k \in 1..Len(body) :
           IsSentinel(body[k]) /\ \A j \in 1..(k - 1) : ~IsSentinel(body[j])
    ELSE 0

\* The part of a body that comes before its sentinel.
BeforeSentinel(body) ==
  IF FirstSentinel(body) = 0 THEN body ELSE SubSeq(body, 1, FirstSentinel(body) - 1)

RECURSIVE RunsOf(_, _)
\* The maximal runs of valid triplets of a sentinel-free part, in file order,
\* `run` being the run in progress.
RunsOf(part, run) ==
  IF part = <<>> THEN <<run>>
  ELSE IF IsSeparator(Head(part)) THEN <<run>> \o RunsOf(Tail(part), <<>>)
  ELSE RunsOf(Tail(part), Append(run, Head(part)))

RECURSIVE RunPoints(_)
RunPoints(run) == IF run = <<>> THEN 0 ELSE Head(run).rep + RunPoints(Tail(run))

RECURSIVE RunFloats(_)
\* The coordinates of a run as a float32 array.
RunFloats(run) ==
  IF run = <<>> THEN <<>>
  ELSE LET c == Head(run) IN
    (IF c.x = c.y /\ c.y = c.z
       THEN <<[v |-> ToFloat32(c.x), n |-> 3 * c.rep]>>
       ELSE <<[v |-> ToFloat32(c.x), n |-> 1], [v |-> ToFloat32(c.y), n |-> 1],
              [v |-> ToFloat32(c.z), n |-> 1]>>)
    \o RunFloats(Tail(run))

RECURSIVE KeepLong(_)
\* The runs of 2 or more points, each as one streamline.
KeepLong(runs) ==
  IF runs = <<>> THEN <<>>
  ELSE (IF RunPoints(Head(runs)) >= 2
          THEN <<[points |-> RunFloats(Head(runs)), numPoints |-> RunPoints(Head(runs)),
                  scalars |-> <<>>, properties |-> <<>>]>>
          ELSE <<>>)
       \o KeepLong(Tail(runs))

ExpectedTck(body) == KeepLong(RunsOf(BeforeSentinel(body), <<>>))

\* The most points any run of the decoded part of a body holds.
LongestRun(body) ==
  LET runs == RunsOf(BeforeSentinel(body), <<>>)
  IN CHOOSE m \in {RunPoints(runs[i]) : i \in 1..Len(runs)} :
       \A i \in 1..Len(runs) : RunPoints(runs[i]) <= m

\* C1: every streamline a decoder returns has a point count of at least 2.
C1_AtLeastTwoPoints ==
  \A r \in OkHeld : \A s \in StreamlinesOf(r) : s.numPoints # NaN /\ s.numPoints >= 2

\* C2: every streamline a decoder returns has points.length = 3 * numPoints,
\* numPoints being a positive integer.
C2_FlatLength ==
  \A r \in OkHeld : \A s \in StreamlinesOf(r) :
    /\ IsInteger(s.numPoints) /\ s.numPoints > 0
    /\ ArrLen(s.points) = 3 * s.numPoints

\* C3: a TCK body with an infinity sentinel decodes to what the part before
\* the sentinel decodes to on its own: the in-progress streamline is emitted
\* once (when it has 2 points or more) and nothing after the sentinel counts.
C3_SentinelEndsDecoding ==
  \A r \in OkHeld :
    (buffer.fmt = "tck" /\ FirstSentinel(buffer.body) # 0) =>
      r.streamlines =
        parseTckFile(TckBuffer([lines |-> buffer.lines, terminated |-> buffer.terminated],
                               BeforeSentinel(buffer.body), 0,
                               HeaderDtBytes([lines |-> buffer.lines]))).streamlines

\* C4: the header's nCount is the number of streamlines decoded.
C4_CountIsDecoded ==
  \A r \in OkHeld : r.header.nCount = Len(r.streamlines)

\* C5: a buffer of more than 500 MB is refused with the size error before any
\* of it is read, whatever it holds.
C5_SizeCheckedFirst ==
  \A r \in Held :
    buffer.byteLength > 500 * 1024 * 1024 => r = [ok |-> FALSE, error |-> "too large", parsed |-> "none"]

\* C5 witness: an oversize TRK buffer without the TRACK identifier was decoded.
C5_Witness ==
  /\ Len(results) = 1 /\ buffer.fmt = "trk"
  /\ buffer.byteLength > 500 * 1024 * 1024
  /\ buffer.hdr.idString = "NOTRK"
  /\ results[1].error = "too large"

\* C6: a result reads the same for as long as its holder does not write into
\* it, whatever is written into another result or into the input buffer; and
\* a second decode of a buffer the caller did not write into gives what the
\* first gave.
C6_IndependentResults ==
  /\ \A i \in 1..Len(results) : i \notin written => Now(results[i]) = seen[i]
  /\ (Len(results) = 2 /\ 0 \notin written) => seen[2] = seen[1]

\* C7: the streamlines of a TCK decode are, in file order, exactly the runs of
\* 2 or more consecutive valid triplets that separators delimit.
C7_RunsBetweenSeparators ==
  \A r \in OkHeld : buffer.fmt = "tck" => r.streamlines = ExpectedTck(buffer.body)

\* The records of a TRK body before the first one whose count is <= 0 or > 100000.
FirstInvalidRecord(records) ==
  IF \E k \in 1..Len(records) : records[k].numPoints <= 0 \/ records[k].numPoints > 100000
    THEN CHOOSE k \in 1..Len(records) :
           /\ records[k].numPoints <= 0 \/ records[k].numPoints > 100000
           /\ \A j \in 1..(k - 1) : ~(records[j].numPoints <= 0 \/ records[j].numPoints > 100000)
    ELSE 0

\* A TRK header every field of which is in range, with the TRACK identifier.
WellFormedTrk(b) ==
  /\ b.byteLength >= 1000 /\ b.byteLength <= 500 * 1024 * 1024
  /\ b.hdr.idString \in {"TRACK", "TRACKS"}
  /\ b.hdr.nScalars \in 0..10 /\ b.hdr.nProperties \in 0..10
  /\ \A i \in 1..3 : b.hdr.dim[i] \in 0..65535
  /\ \A i \in 1..3 : isFinite(b.hdr.voxelSize[i]) /\ b.hdr.voxelSize[i] >= 0
  /\ b.hdr.hdrSize = 1000

\* C8: a TRK record with a point count <= 0 or > 100000 ends decoding without
\* an error; the result holds the records before it (as many as the declared
\* count allows), in file order, and none at or after it.
C8_InvalidCountEndsDecoding ==
  \A r \in Held :
    (buffer.fmt = "trk" /\ WellFormedTrk(buffer) /\ FirstInvalidRecord(buffer.records) # 0) =>
      LET before == FirstInvalidRecord(buffer.records) - 1
          kept == IF buffer.hdr.nCount > 0 THEN Min(buffer.hdr.nCount, before) ELSE before
      IN /\ r.ok
         /\ Len(r.streamlines) = kept
         /\ \A j \in 1..kept : r.streamlines[j].numPoints = buffer.records[j].numPoints
                               /\ ArrLen(r.streamlines[j].points) = 3 * buffer.records[j].numPoints

\* C8 witness: a valid record, then an invalid one, then a valid one, decoded
\* to the first record alone.
C8_Witness ==
  /\ Len(results) = 1 /\ buffer.fmt = "trk" /\ WellFormedTrk(buffer)
  /\ Len(buffer.records) = 3 /\ FirstInvalidRecord(buffer.records) = 2
  /\ buffer.records[2].numPoints = 100001 /\ buffer.records[3].numPoints = 2
  /\ results[1].ok /\ Len(results[1].streamlines) = 1

\* C9: a TCK run of more than 100000 points is a malformed-file error and the
\* caller gets no streamlines; a run of exactly 100000 points is decoded.
C9_RunawayIsFatal ==
  \A r \in Held :
    (buffer.fmt = "tck" /\ r.parsed = "body") =>
      IF LongestRun(buffer.body) > 100000
        THEN r = [ok |-> FALSE, error |-> "streamline exceeds maximum point count",
                  parsed |-> "body"]
        ELSE /\ r.ok
             /\ LongestRun(buffer.body) = 100000 =>
                  \E s \in StreamlinesOf(r) : s.numPoints = 100000

\* C9 witness: a 2-point streamline, a separator, then a run of 100001 points:
\* the call failed.
C9_Witness ==
  /\ Len(results) = 1 /\ buffer.fmt = "tck"
  /\ Len(buffer.body) = 3 /\ buffer.body[1].rep = 2 /\ IsSeparator(buffer.body[2])
  /\ buffer.body[3].rep = 100001
  /\ ~results[1].ok /\ results[1].parsed = "body"

\* The header fields of the claim that are out of range, in the order the
\* validation takes them.
BadTrkFields(h) ==
  (IF h.nScalars \notin 0..10 THEN <<"nScalars">> ELSE <<>>)
  \o (IF h.nProperties \notin 0..10 THEN <<"nProperties">> ELSE <<>>)
  \o (IF \E i \in 1..3 : h.dim[i] \notin 0..65535 THEN <<"dimension">> ELSE <<>>)
  \o (IF \E i \in 1..3 : ~isFinite(h.voxelSize[i]) \/ h.voxelSize[i] < 0
        THEN <<"voxelSize">> ELSE <<>>)
  \o (IF h.hdrSize # 1000 THEN <<"hdrSize">> ELSE <<>>)

\* C10 as stated: parseTrkFile returns a result only if every field is in
\* range, and if one is not the call fails with an error naming that field.
C10_ErrorNamesField ==
  \A r \in Held :
    buffer.fmt = "trk" =>
      /\ r.ok => BadTrkFields(buffer.hdr) = <<>>
      /\ BadTrkFields(buffer.hdr) # <<>> =>
           /\ ~r.ok
           /\ \E i \in 1..Len(BadTrkFields(buffer.hdr)) : r.error = BadTrkFields(buffer.hdr)[i]

\* C10 amended: parseTrkFile returns a result only if every field is in range;
\* if one is not the call fails before any record is read, and when the
\* buffer is within the size limit, holds the whole header and starts with
\* TRACK, the error names the first field out of range.
C10_FirstBadFieldNamed ==
  \A r \in Held :
    buffer.fmt = "trk" =>
      /\ r.ok => BadTrkFields(buffer.hdr) = <<>>
      /\ BadTrkFields(buffer.hdr) # <<>> =>
           /\ ~r.ok /\ r.parsed # "body"
           /\ (/\ buffer.byteLength <= 500 * 1024 * 1024
               /\ buffer.byteLength >= 1000
               /\ buffer.hdr.idString \in {"TRACK", "TRACKS"})
                => r.error = BadTrkFields(buffer.hdr)[1]

\* C10 witness: a header with TRACK, 11 scalars and a header size of 999 was
\* refused for its scalar count.
C10_Witness ==
  /\ Len(results) = 1 /\ buffer.fmt = "trk"
  /\ buffer.byteLength \in 1000..(500 * 1024 * 1024)
  /\ buffer.hdr.idString = "TRACK"
  /\ buffer.hdr.nScalars = 11 /\ buffer.hdr.hdrSize = 999
  /\ results[1].error = "nScalars"


\* The bytes of a TRK record with a valid count: the count, the points with
\* their scalars, the properties.
RecordBytes(rec, h) == 4 + rec.numPoints * (12 + 4 * h.nScalars) + 4 * h.nProperties

RECURSIVE RecordEnd(_, _)
\* The offset right after the j-th record of a TRK buffer whose records up to
\* the j-th have valid counts.
RecordEnd(b, j) == IF j = 0 THEN 1000 ELSE RecordEnd(b, j - 1) + RecordBytes(b.records[j], b.hdr)

ValidCount(rec) == rec.numPoints > 0 /\ rec.numPoints <= 100000

\* How many leading records of a TRK buffer have a valid count and lie
\* completely inside the buffer.
Lead(b) ==
  LET fine(m) == \A j \in 1..m : ValidCount(b.records[j]) /\ RecordEnd(b, j) <= b.byteLength
  IN CHOOSE m \in 0..Len(b.records) : fine(m) /\ \A k \in (m + 1)..Len(b.records) : ~fine(k)

\* Streamlines 1..m of a result are records 1..m of the buffer, in order.
FirstRecords(r, b, m) ==
  /\ Len(r.streamlines) = m
  /\ \A j \in 1..m : /\ r.streamlines[j].numPoints = b.records[j].numPoints
                     /\ ArrLen(r.streamlines[j].points) = 3 * b.records[j].numPoints
                     /\ Len(r.streamlines[j].scalars) = b.hdr.nScalars
                     /\ ArrLen(r.streamlines[j].properties) = b.hdr.nProperties

\* A TRK buffer with valid record counts that stops inside its last record.
EndsMidRecord(b) ==
  /\ b.records # <<>> /\ \A j \in 1..Len(b.records) : ValidCount(b.records[j])
  /\ b.byteLength < RecordEnd(b, Len(b.records))

\* C11: a TRK buffer that ends inside a record (inside its count or its data)
\* decodes without error to exactly the records that lie completely inside
\* it (as many as the declared count allows), and no decode reads at an
\* offset past the end of the buffer.
C11_TruncatedRecordDropped ==
  \A r \in Held :
    (buffer.fmt = "trk" /\ WellFormedTrk(buffer)) =>
      /\ r.ok
      /\ TrkReadEnd(buffer) <= buffer.byteLength
      /\ EndsMidRecord(buffer) =>
           FirstRecords(r, buffer,
                        IF buffer.hdr.nCount > 0 THEN Min(buffer.hdr.nCount, Lead(buffer))
                        ELSE Lead(buffer))

\* C11 witness: two records, the buffer stopping inside the count of the
\* second: the first record alone was returned.
C11_Witness ==
  /\ Len(results) = 1 /\ buffer.fmt = "trk" /\ WellFormedTrk(buffer)
  /\ Len(buffer.records) = 2 /\ EndsMidRecord(buffer)
  /\ buffer.byteLength = RecordEnd(buffer, 1) + 2
  /\ buffer.hdr.nCount = 0
  /\ results[1].ok /\ Len(results[1].streamlines) = 1

\* C12: with a declared count n > 0 the TRK decoder returns at most n
\* streamlines, the first records of the body, and reads nothing after the
\* n-th record; with n <= 0 it returns every record up to the end of the
\* buffer or the first invalid record.
C12_DeclaredCountLimits ==
  \A r \in Held :
    (buffer.fmt = "trk" /\ WellFormedTrk(buffer)) =>
      LET n == buffer.hdr.nCount IN
      IF n > 0
        THEN /\ Len(r.streamlines) <= n
             /\ FirstRecords(r, buffer, Min(n, Lead(buffer)))
             /\ Lead(buffer) >= n => TrkReadEnd(buffer) = RecordEnd(buffer, n)
        ELSE FirstRecords(r, buffer, Lead(buffer))

\* C12 witness: a declared count of 1 and two complete valid records: one
\* streamline was returned.
C12_Witness ==
  /\ Len(results) = 1 /\ buffer.fmt = "trk" /\ WellFormedTrk(buffer)
  /\ buffer.hdr.nCount = 1 /\ Len(buffer.records) = 2 /\ Lead(buffer) = 2
  /\ Len(results[1].streamlines) = 1


\* The error a call failed with, "" for a call that returned.
ErrorOf(r) == IF r.ok THEN "" ELSE r.error

\* A TCK buffer within the size limit none of whose header lines ends with
\* the letters END, closed by an END line inside the first 10 KB.
PlainTckHeader(b) ==
  /\ b.fmt = "tck" /\ b.byteLength <= 500 * 1024 * 1024
  /\ \A i \in 1..Len(b.lines) : ~b.lines[i].end
  /\ b.terminated # "none" /\ TckHeaderBytes(b.lines) + 4 <= 10000

\* The value of the header's datatype entry (the last one), Float32LE when
\* the header has none.
DeclaredDatatype(lines) ==
  LET at == {i \in 1..Len(lines) : lines[i].cls = "kv" /\ lines[i].key = "datatype"}
  IN IF at = {} THEN "Float32LE"
     ELSE lines[CHOOSE i \in at : \A j \in at : j <= i].value

FourDatatypes == {"Float32LE", "Float32BE", "Float64LE", "Float64BE"}

\* C13: parseTckFile passes the magic check exactly when the header carries
\* the magic marker (a line equal to 'mrtrix tracks') or its first raw line
\* contains "mrtrix tracks" in any case; otherwise it fails with the
\* missing-identifier error.
C13_MagicOnFirstLine ==
  \A r \in Held :
    (PlainTckHeader(buffer) /\ DeclaredDatatype(buffer.lines) \in FourDatatypes) =>
      LET marked == \E i \in 1..Len(buffer.lines) : buffer.lines[i].cls = "magic"
          first == buffer.lines # <<>> /\ buffer.lines[1].phrase
      IN IF marked \/ first
           THEN ErrorOf(r) # "missing mrtrix tracks identifier"
           ELSE ErrorOf(r) = "missing mrtrix tracks identifier"

\* C14: the TCK header ends right after the newline of the first line that is
\* literally END, and only there; without such a line in the first 10 KB the
\* call fails.
C14_EndLineTerminates ==
  \A r \in Held :
    (buffer.fmt = "tck" /\ buffer.byteLength <= 500 * 1024 * 1024) =>
      IF buffer.terminated # "none" /\ TckHeaderBytes(buffer.lines) + 4 <= 10000
        THEN /\ ErrorOf(r) # "could not find END marker"
             /\ TckHeaderEnd(buffer) =
                  TckHeaderBytes(buffer.lines) + (IF buffer.terminated = "CRLF" THEN 5 ELSE 4)
        ELSE ErrorOf(r) = "could not find END marker"

\* C15: a TCK header whose datatype value is not exactly one of Float32LE,
\* Float32BE, Float64LE, Float64BE makes parseTckFile fail with the
\* unsupported-datatype error, before any streamline data is decoded.
C15_DatatypeIsOneOfFour ==
  \A r \in Held :
    (PlainTckHeader(buffer) /\ DeclaredDatatype(buffer.lines) \notin FourDatatypes) =>
      r = [ok |-> FALSE, error |-> "Unsupported TCK datatype", parsed |-> "header"]

\* C16: a TCK body without an infinity sentinel decodes without error; the
\* points after the last separator make a final streamline when there are 2
\* or more of them, and bytes after the last full triplet are ignored.
C16_GracefulEndOfBuffer ==
  \A r \in Held :
    (/\ PlainTckHeader(buffer) /\ DeclaredDatatype(buffer.lines) \in FourDatatypes
     /\ r.parsed = "body"
     /\ FirstSentinel(buffer.body) = 0 /\ LongestRun(buffer.body) <= 100000) =>
      LET runs == RunsOf(buffer.body, <<>>)
          last == runs[Len(runs)]
      IN /\ r.ok
         /\ Len(r.streamlines) = Len(KeepLong(runs))
         /\ RunPoints(last) >= 2 =>
              /\ r.streamlines[Len(r.streamlines)].numPoints = RunPoints(last)
              /\ r.streamlines[Len(r.streamlines)].points = RunFloats(last)

\* C16 witness: two points, no separator, no sentinel, then 5 stray bytes:
\* the two points were returned as one streamline.
C16_Witness ==
  /\ Len(results) = 1 /\ PlainTckHeader(buffer)
  /\ buffer.body = <<[x |-> 1, y |-> 1, z |-> 1, rep |-> 2]>>
  /\ buffer.byteLength = TckHeaderBytes(buffer.lines) + 4 + 2 * 12 + 5
  /\ results[1].ok /\ Len(results[1].streamlines) = 1


\* A TRX archive within the size limit that is all there: every entry is a
\* local file header with its whole data region.
WholeArchive(b) ==
  /\ b.fmt = "trx" /\ b.byteLength <= 500 * 1024 * 1024
  /\ \A j \in 1..Len(b.entries) : b.entries[j].sig
  /\ b.byteLength >= TrxBytes(b.entries)

HeaderNames == {"header.json", "trx/header.json"}
PositionsNames ==
  {"positions.3.float32", "positions.3.float64", "positions.3.float16",
   "positions.3.int8", "trx/positions.3.float32"}
OffsetsNames ==
  {"offsets.uint32", "offsets.int32", "offsets.uint64", "offsets.int64",
   "offsets.uint16", "trx/offsets.uint32"}

\* The content of the first stored or deflated member of an archive whose
\* name is one of `names`.
Member(b, names) ==
  LET at == {j \in 1..Len(b.entries) :
               b.entries[j].name \in names /\ b.entries[j].method \in {0, 8}}
  IN b.entries[CHOOSE j \in at : \A k \in at : j <= k].data

\* What the claim makes of index i (from 0): nothing when offsets[i] does not
\* exist or end - start < 2, else the vertex range, kept times 3.
RangeOf(pos, off, i) ==
  IF i >= Len(off) THEN <<>>
  ELSE LET start3 == 3 * off[i + 1]
           end3 == IF i + 1 < Len(off) THEN 3 * off[i + 2] ELSE Len(pos)
       IN IF end3 - start3 < 6 THEN <<>> ELSE <<[start3 |-> start3, end3 |-> end3]>>

RECURSIVE RangesFrom(_, _, _, _)
RangesFrom(pos, off, nb, i) ==
  IF i >= nb THEN <<>> ELSE RangeOf(pos, off, i) \o RangesFrom(pos, off, nb, i + 1)

\* C17: the TRX streamlines are, in increasing order of i in [0,
\* NB_STREAMLINES), those with end - start >= 2 (start = offsets[i], end =
\* offsets[i+1] or the vertex count), each with numPoints = end - start and
\* with a copy of positions[3*start .. 3*end) as its points.
C17_Reconstruction ==
  \A r \in OkHeld :
    WholeArchive(buffer) =>
      LET pos == Member(buffer, PositionsNames)
          off == Member(buffer, OffsetsNames)
          want == RangesFrom(pos, off, Member(buffer, HeaderNames).NB_STREAMLINES, 0)
      IN /\ Len(r.streamlines) = Len(want)
         /\ \A k \in 1..Len(want) :
              LET n3 == want[k].end3 - want[k].start3 IN
              /\ r.streamlines[k].numPoints = (IF n3 % 3 = 0 THEN n3 \div 3 ELSE NonInteger)
              /\ (want[k].start3 >= 0 /\ want[k].end3 <= Len(pos)) =>
                   r.streamlines[k].points =
                     [j \in 1..n3 |-> [v |-> pos[want[k].start3 + j], n |-> 1]]

RECURSIVE EntryStart(_, _)
\* The offset of the j-th local file header of an archive.
EntryStart(b, j) == IF j = 1 THEN 0 ELSE EntryStart(b, j - 1) + b.entries[j - 1].size

\* C18: a TRX archive that ends inside header.json, the positions member or
\* the offsets member (the member starts in the buffer and its declared size
\* reaches past the buffer's end) makes parseTrxFile fail.
C18_IncompleteMemberIsFatal ==
  \A r \in Held :
    (/\ buffer.fmt = "trx" /\ buffer.byteLength <= 500 * 1024 * 1024
     /\ \E j \in 1..Len(buffer.entries) :
          /\ buffer.entries[j].name \in HeaderNames \cup PositionsNames \cup OffsetsNames
          /\ EntryStart(buffer, j) < buffer.byteLength
          /\ EntryStart(buffer, j) + buffer.entries[j].size > buffer.byteLength)
      => ~r.ok

\* C19 as stated: the unified TRX header has DIMENSIONS as its dim and
\* NB_STREAMLINES as its nCount.
C19_CountIsDeclared ==
  \A r \in OkHeld :
    WholeArchive(buffer) =>
      /\ r.header.dim.val = Member(buffer, HeaderNames).DIMENSIONS
      /\ r.header.nCount = Member(buffer, HeaderNames).NB_STREAMLINES

\* C19 amended: the unified TRX header has DIMENSIONS of header.json as its
\* dim, unchanged, and the number of streamlines emitted as its nCount, which
\* is NB_STREAMLINES only when no index was skipped.
C19_DimIsDeclared ==
  \A r \in OkHeld :
    WholeArchive(buffer) =>
      /\ r.header.dim.ref = "own"
      /\ r.header.dim.val = Member(buffer, HeaderNames).DIMENSIONS
      /\ r.header.nCount = Len(r.streamlines)
      /\ r.header.nCount <= Member(buffer, HeaderNames).NB_STREAMLINES

\* C19 witness: header.json declares 2 streamlines, one index is skipped, and
\* the header returned has the declared dimensions and a count of 1.
C19_Witness ==
  /\ Len(results) = 1 /\ WholeArchive(buffer) /\ results[1].ok
  /\ Member(buffer, HeaderNames).NB_STREAMLINES = 2
  /\ Member(buffer, OffsetsNames) = <<0, 5>>
  /\ results[1].header.nCount = 1
  /\ results[1].header.dim.val = <<1, 1, 1>>

\* The entries of an archive before the first position that is not a local
\* file header.
Walked(b) ==
  LET stop == {j \in 1..Len(b.entries) : ~b.entries[j].sig}
  IN IF stop = {} THEN b.entries
     ELSE SubSeq(b.entries, 1, (CHOOSE j \in stop : \A k \in stop : j <= k) - 1)

StoredOrDeflated(e) == e.method \in {0, 8}

\* C20: the ZIP walk collects, in archive order, the entries in method 0 or
\* 8 that come before the first position without the local-file-header
\* signature; an entry in another method is left out, and the entries after
\* it are still found.
C20_ZipWalk ==
  \A r \in Held :
    (/\ buffer.fmt = "trx" /\ buffer.byteLength <= 500 * 1024 * 1024
     /\ buffer.byteLength >= TrxBytes(buffer.entries)) =>
      LET zip == parseZipEntries(buffer.entries, 0, buffer.byteLength)
          want == SelectSeq(Walked(buffer), StoredOrDeflated)
      IN /\ zip.thrown = ""
         /\ Len(zip.entries) = Len(want)
         /\ \A i \in 1..Len(want) : /\ zip.entries[i].name = want[i].name
                                    /\ zip.entries[i].data.content = want[i].data
                                    /\ zip.entries[i].data.whole
         /\ ErrorOf(r) = "missing header.json"
              <=> ~\E i \in 1..Len(want) : want[i].name \in HeaderNames
         /\ ErrorOf(r) = "missing positions file"
              => ~\E i \in 1..Len(want) : want[i].name \in PositionsNames

\* C20 witness: an entry in method 12 lies between header.json and the
\* deflated positions member, and the archive was decoded to its streamline.
C20_Witness ==
  /\ Len(results) = 1 /\ WholeArchive(buffer) /\ Len(buffer.entries) = 4
  /\ buffer.entries[2].method = 12 /\ buffer.entries[3].method = 8
  /\ results[1].ok /\ Len(results[1].streamlines) = 1


\* The members of an archive the walk reads: those in method 0 or 8 before
\* the first position that is not a local file header.
Readable(b) == SelectSeq(Walked(b), StoredOrDeflated)

\* Whether one of the entries has a name in `names`.
Has(entries, names) == \E i \in 1..Len(entries) : entries[i].name \in names

\* C21: parseTrxFile fails, returning no data, whenever the entries collected
\* lack header.json, lack a positions.* entry or lack an offsets.* entry; a
\* member that is in the archive in a method the walk skips counts as lacking.
\* A lacking header.json is reported as such, and so is a lacking positions or
\* offsets member once header.json has been accepted.
C21_MissingMemberIsFatal ==
  \A r \in Held :
    (buffer.fmt = "trx" /\ buffer.byteLength <= 500 * 1024 * 1024) =>
      LET zip == parseZipEntries(buffer.entries, 0, buffer.byteLength)
          lacksCollected == \/ ~Has(zip.entries, HeaderNames)
                            \/ ~Has(zip.entries, PositionsNames)
                            \/ ~Has(zip.entries, OffsetsNames)
          got == Readable(buffer)
      IN /\ lacksCollected => (~r.ok /\ "streamlines" \notin DOMAIN r)
         /\ buffer.byteLength >= TrxBytes(buffer.entries) =>
              /\ (~Has(got, HeaderNames) \/ ~Has(got, PositionsNames) \/ ~Has(got, OffsetsNames))
                   => (~r.ok /\ "streamlines" \notin DOMAIN r)
              /\ ~Has(got, HeaderNames) => ErrorOf(r) = "missing header.json"
              /\ (Has(got, HeaderNames) /\ ~Has(got, PositionsNames)
                    /\ validateTrxHeader(Member(buffer, HeaderNames)) = "")
                   => ErrorOf(r) = "missing positions file"
              /\ (Has(got, HeaderNames) /\ Has(got, PositionsNames) /\ ~Has(got, OffsetsNames)
                    /\ validateTrxHeader(Member(buffer, HeaderNames)) = "")
                   => ErrorOf(r) = "missing offsets file"

\* C21 witness: the positions member is in the archive in method 12, header.json
\* and the offsets member are stored, and the call failed for the positions.
C21_Witness ==
  /\ Len(results) = 1 /\ WholeArchive(buffer) /\ Len(buffer.entries) = 3
  /\ buffer.entries[1].method = 0 /\ buffer.entries[1].name = "header.json"
  /\ buffer.entries[2].method = 12 /\ buffer.entries[2].name = "positions.3.float32"
  /\ buffer.entries[3].method = 0 /\ buffer.entries[3].name = "offsets.uint32"
  /\ ~results[1].ok /\ ErrorOf(results[1]) = "missing positions file"


\* The rules of the claim a parsed header.json breaks, by field, in the order
\* VOXEL_TO_RASMM, DIMENSIONS, NB_STREAMLINES, NB_VERTICES.
NonNegativeInteger(x) ==
  x \notin {NonNumber, NonInteger, NaN, PosInf, NegInf} /\ x >= 0

BadTrxFields(obj) ==
  (IF \/ Len(obj.VOXEL_TO_RASMM) # 4
      \/ \E i \in 1..Len(obj.VOXEL_TO_RASMM) :
           \/ Len(obj.VOXEL_TO_RASMM[i]) # 4
           \/ \E j \in 1..Len(obj.VOXEL_TO_RASMM[i]) : obj.VOXEL_TO_RASMM[i][j] = NonNumber
     THEN <<"VOXEL_TO_RASMM">> ELSE <<>>)
  \o (IF \/ Len(obj.DIMENSIONS) # 3
         \/ \E i \in 1..Len(obj.DIMENSIONS) : ~NonNegativeInteger(obj.DIMENSIONS[i])
        THEN <<"DIMENSIONS">> ELSE <<>>)
  \o (IF ~NonNegativeInteger(obj.NB_STREAMLINES) THEN <<"NB_STREAMLINES">> ELSE <<>>)
  \o (IF ~NonNegativeInteger(obj.NB_VERTICES) THEN <<"NB_VERTICES">> ELSE <<>>)

\* The header field an error message names, "" when it names none.
FieldNamed(error) ==
  CASE error \in {"VOXEL_TO_RASMM must be a 4x4 matrix",
                  "VOXEL_TO_RASMM rows must be arrays of 4 numbers"} -> "VOXEL_TO_RASMM"
    [] error = "DIMENSIONS must be 3 non-negative integers" -> "DIMENSIONS"
    [] error = "NB_STREAMLINES must be a non-negative integer" -> "NB_STREAMLINES"
    [] error = "NB_VERTICES must be a non-negative integer" -> "NB_VERTICES"
    [] OTHER -> ""

\* header.json was collected whole by a walk that ended without an error, in
\* a buffer within the size limit: its text is what JSON.parse is given.
HeaderParsed(b) ==
  /\ b.fmt = "trx" /\ b.byteLength <= 500 * 1024 * 1024
  /\ LET zip == parseZipEntries(b.entries, 0, b.byteLength)
         at == {i \in 1..Len(zip.entries) : zip.entries[i].name \in HeaderNames}
     IN /\ zip.thrown = ""
        /\ at # {}
        /\ zip.entries[CHOOSE i \in at : \A k \in at : i <= k].data.whole

CeilOfQuotient(a, b) ==
  IF b >= a THEN (IF a = 0 THEN 0 ELSE 1)
  ELSE CHOOSE k \in 1..a : k * b >= a /\ (k - 1) * b < a

\* The elements of a list at indices 0, step, 2*step, ..., cut off after
\* `most` elements.
EveryNth(list, step, most) ==
  LET hits == {i \in 0..(Len(list) - 1) : i % step = 0}
      count == Min(most, Cardinality(hits))
  IN [k \in 1..count |-> list[(k - 1) * step + 1]]

\* C23: above the threshold (total > threshold) applySkipSampling returns
\* skipFactor = ceil(total / min(max, total)) (Infinity when max is 0) and the
\* input elements at indices 0, skipFactor, 2*skipFactor, ... in that order,
\* cut off after max elements; the length is min(max, ceil(total /
\* skipFactor)), never more than max, and the input list is as it was.
C23_StrideAboveThreshold ==
  (call.fn = "applySkipSampling" /\ Len(call.streamlines) > call.skipThreshold) =>
    LET total == Len(call.streamlines)
        target == Min(call.maxCount, total)
        factor == IF target = 0 THEN PosInf ELSE CeilOfQuotient(total, target)
    IN /\ ret.skipFactor = factor
       /\ ret.totalCount = total
       /\ ret.sampled = EveryNth(call.streamlines, factor, call.maxCount)
       /\ Len(ret.sampled) = Min(call.maxCount, CeilOfQuotient(total, factor))
       /\ Len(ret.sampled) <= call.maxCount
       /\ call.after = call.streamlines

\* C23 witness: 10 streamlines, max 4, threshold 5: every third streamline.
C23_Witness ==
  /\ call.fn = "applySkipSampling"
  /\ Len(call.streamlines) = 10 /\ call.maxCount = 4 /\ call.skipThreshold = 5
  /\ ret.skipFactor = 3
  /\ ret.sampled = <<Line(1), Line(4), Line(7), Line(10)>>

\* C24: at or below the threshold (total <= threshold) applySkipSampling
\* returns skip factor 1 and the first min(max, total) input streamlines, in
\* order and unchanged, for every max >= 0; never more than max of them.
C24_FirstAtOrBelowThreshold ==
  (call.fn = "applySkipSampling" /\ Len(call.streamlines) <= call.skipThreshold
     /\ call.maxCount >= 0) =>
    /\ ret.skipFactor = 1
    /\ ret.totalCount = Len(call.streamlines)
    /\ ret.sampled = SubSeq(call.streamlines, 1, Min(call.maxCount, Len(call.streamlines)))
    /\ Len(ret.sampled) <= call.maxCount
    /\ call.after = call.streamlines

\* C24 witness: 3 streamlines with a threshold of 3 and max 2: the first two.
C24_Witness ==
  /\ call.fn = "applySkipSampling"
  /\ Len(call.streamlines) = 3 /\ call.maxCount = 2 /\ call.skipThreshold = 3
  /\ ret.skipFactor = 1
  /\ ret.sampled = <<Line(1), Line(2)>>


\* The coordinates on axis a (1, 2, 3) of all points of all streamlines.
AxisValues(streamlines, a) ==
  UNION {{Flat(streamlines[s].points)[i] :
            i \in {j \in 1..ArrLen(streamlines[s].points) : j % 3 = a % 3}} :
         s \in 1..Len(streamlines)}

\* Streamlines of whole points whose coordinates are all finite numbers, with
\* one point at least.
FinitePoints(streamlines) ==
  /\ \A s \in 1..Len(streamlines) :
       /\ ArrLen(streamlines[s].points) % 3 = 0
       /\ \A i \in 1..Len(streamlines[s].points) :
            isFinite(streamlines[s].points[i].v) /\ ~isNaN(streamlines[s].points[i].v)
  /\ \E s \in 1..Len(streamlines) : ArrLen(streamlines[s].points) >= 3

Spells(b, words, offsets, within) ==
  \E i \in 1..Len(b.segs) :
    /\ b.segs[i].text \in words
    /\ SegStart(b.segs, i) \in offsets
    /\ SegStart(b.segs, i) + b.segs[i].chars <= Min(within, b.byteLength)

\* A minimal well-formed file: one of the smallest buffers its decoder accepts.
MinimalFile(b) ==
  b.decodes /\ b \in {Leading(x) : x \in HeldTrk \cup HeldTck \cup HeldTrx}

\* C27: for every buffer, the empty one included, isTrkFile is true iff the
\* buffer has at least 6 bytes and starts with "TRACK", isTckFile iff its first
\* (at most) 100 bytes contain "mrtrix tracks" in any letter case, isTrxFile
\* iff it has at least 4 bytes and starts with the signature 0x04034b50; none
\* raises, and on a minimal well-formed file of a format only the probe of
\* that format is true.
C27_ProbesExact ==
  call.fn = "probe" =>
    LET b == call.buffer IN
    /\ ~ret.isTrkFile.raised /\ ~ret.isTckFile.raised /\ ~ret.isTrxFile.raised
    /\ ret.isTrkFile.value <=>
         (b.byteLength >= 6 /\ Spells(b, {"TRACK", "TRACKS"}, {0}, 5))
    /\ ret.isTckFile.value <=>
         Spells(b, {"mrtrix tracks", "MRtrix Tracks", "MRTRIX TRACKS"}, 0..87, 100)
    /\ ret.isTrxFile.value <=>
         (b.byteLength >= 4 /\ Spells(b, {"PK\\3\\4"}, {0}, 4))
    /\ MinimalFile(b) =>
         /\ ret.isTrkFile.value <=> b.fmt = "trk"
         /\ ret.isTckFile.value <=> b.fmt = "tck"
         /\ ret.isTrxFile.value <=> b.fmt = "trx"

\* C27 witness: a 3-byte buffer that starts like the ZIP signature: every
\* probe returned false.
C27_Witness ==
  /\ call.fn = "probe" /\ call.buffer.byteLength = 3
  /\ MagicOf(call.buffer) = "PK\\3\\4"
  /\ ret.isTrxFile = Returned(FALSE)
  /\ ret.isTrkFile = Returned(FALSE) /\ ret.isTckFile = Returned(FALSE)


\* A number that is finite: not NaN, not an infinity, not the null JSON makes
\* of them.
FiniteNumber(x) == x \notin {NaN, PosInf, NegInf, JsonNull}

\* A bounding box of finite numbers.
FiniteBox(box) ==
  /\ \A a \in 1..3 : /\ FiniteNumber(box.min[a])
                     /\ FiniteNumber(box.max[a])
                     /\ FiniteNumber(box.center[a].halves)
  /\ FiniteNumber(box.size.sqrtOf)

\* C25: a bounding box is finite wherever it is used: in every message the
\* editor has posted to the webview, in the renderer that stores it, and in
\* the camera placed from it (the caller has replaced the infinite minimum and
\* maximum of a list without points by a finite default).
C25_DefaultBeforeUse ==
  /\ \A i \in 1..Len(toView) : FiniteBox(toView[i].data.boundingBox)
  /\ renderer.boundingBox.defined => FiniteBox(renderer.boundingBox.value)
  /\ renderer.camera.centered =>
       /\ \A a \in 1..3 : FiniteNumber(renderer.camera.center[a].halves)
       /\ FiniteNumber(renderer.camera.size.sqrtOf)


\* C28: in lines mode the colours of the displayed vertices are the colours
\* computed from the displayed streamlines in the current colouring mode, with
\* the gamma of the most recently set brightness applied to them once (colours
\* no exponent was applied to are those of full brightness).
C28_BrightnessKept ==
  (renderer.made /\ renderer.currentMode = "lines" /\ renderer.tract.kind = "lines") =>
    /\ renderer.tract.colors =
         LineColors(renderer.streamlines, renderer.currentColoringMode)
    /\ \/ renderer.tract.gammas = <<renderer.brightness>>
       \/ renderer.tract.gammas = <<>> /\ renderer.brightness = FullBrightness


\* The streamlines of a list all carry scalar data, and there is one.
CarryScalars(streamlines) ==
  /\ streamlines # <<>>
  /\ \A i \in 1..Len(streamlines) :
       streamlines[i].scalars.defined /\ streamlines[i].scalars.value # <<>>

\* No streamline of a list carries scalar data.
NoScalars(streamlines) ==
  \A i \in 1..Len(streamlines) : ~streamlines[i].scalars.defined

\* C29: the colouring mode of the renderer is 'scalar' only while the
\* displayed streamlines carry scalar data; and a step in which 'scalar' is
\* requested (the Scalar button becomes the active one) while the displayed
\* streamlines carry none leaves the colouring mode and the geometry as they
\* were.
C29_ScalarOnlyWithData ==
  /\ [](renderer.currentColoringMode = "scalar" => CarryScalars(renderer.streamlines))
  /\ [][(/\ page.coloringButton # "scalar"
         /\ page'.coloringButton = "scalar"
         /\ NoScalars(renderer.streamlines))
        => /\ renderer'.currentColoringMode = renderer.currentColoringMode
           /\ renderer'.tract = renderer.tract]_vars

\* 'scalar' was requested of a renderer that displays streamlines without
\* scalar data, and the renderer kept its colouring mode.
C29_Witness ==
  /\ renderer.made
  /\ page.coloringButton = "scalar"
  /\ renderer.tract.kind # "none"
  /\ NoScalars(renderer.streamlines)
  /\ renderer.currentColoringMode # "scalar"


\* The message a step posts to the webview is the last of toView.
Posts == Len(toView') > Len(toView)
Posted == toView'[Len(toView')]

\* C30: (1) a step that posts 'init' is the editor receiving 'ready', and a
\* step that posts 'updateStreamlines' is the editor receiving
\* 'updateStreamlineCount', the streamlines posted being the document's full
\* list sampled with the requested count and the threshold read when the
\* editor opened; (2) a page that has not handled 'init' has no renderer and
\* shows nothing; (3) a step in which such a page receives 'updateStreamlines'
\* changes nothing but the queue it is taken from.
C30_InitThenUpdates ==
  /\ [][Posts =>
          /\ toHost # <<>>
          /\ toHost' = Tail(toHost)
          /\ toView' = Append(toView, Posted)
          /\ \/ Posted.type = "init" /\ Head(toHost).type = "ready"
             \/ /\ Posted.type = "updateStreamlines"
                /\ Head(toHost).type = "updateStreamlineCount"
                /\ Posted.data.streamlines =
                     StreamlineDataOf(applySkipSampling(host.streamlines, Head(toHost).count,
                                                        host.settings.skipThreshold).sampled)]_vars
  /\ [](~page.controlsShown => renderer = NoRenderer)
  /\ [][(/\ toView # <<>>
         /\ toView' = Tail(toView)
         /\ Head(toView).type = "updateStreamlines"
         /\ ~page.controlsShown)
        => UNCHANGED <<host, page, renderer, toHost, loads>>]_vars

\* A reloaded page that has not handled 'init' is about to receive the
\* 'updateStreamlines' the editor posted in answer to the slider of the page
\* before it.
C30_Witness ==
  /\ page.loaded
  /\ ~page.controlsShown
  /\ toView # <<>>
  /\ Head(toView).type = "updateStreamlines"
  /\ Head(toView).data.streamlines # <<>>

====
